---- MODULE Spec2Model ----
(***************************************************************************)
(* Model of the /api/ddg request pipeline: the GET handler, the two        *)
(* bounded-concurrency runners (firstNonNullWithConcurrency,               *)
(* fetchAllWithConcurrency), the per-candidate worker and the aggregation  *)
(* of accepted sources under the per-source and total character budgets.   *)
(*                                                                         *)
(* Three versions of the route exist in the sources:                       *)
(*   "gather"  src/src/routes/api/ddg.ts:1-1112     (fetchAll, scored)     *)
(*   "race"    src/src/routes/api/ddg.ts:1114-1767  (first non-null)       *)
(*   "polite"  src/src/types/cloudflare-env.d.ts    (first non-null, with  *)
(*             robots.txt check, rate limiter and HTTP status handling)    *)
(*                                                                         *)
(* JavaScript runs the handler on one event loop.  Code between two awaits *)
(* is atomic, so every action below is the code from one suspension point  *)
(* to the next.  The continuation of `await worker(input).catch(...)` runs *)
(* a fixed number of microtask hops after the worker call settles, so the  *)
(* continuations run in the order the worker calls settle; a worker's last *)
(* step and its slot's continuation are therefore one action.              *)
(***************************************************************************)
EXTENDS Integers, Sequences, FiniteSets, TLC

\* ---------------------------------------------------------------- bounds
MaxN == 3          \* candidate URLs handed to the runner
MaxConc == 2       \* largest concurrency argument tried
MaxSources == 3    \* accepted sources handed to the summarisation block

Versions == {"gather", "race", "polite"}
ConcSet == -1..MaxConc

VARIABLES
  version,       \* which route file is running
  N,             \* candidateUrls.length
  conc,          \* concurrency argument of the runner
  hpc,           \* position of the GET handler
  resp,          \* the handler's outcome
  browser,       \* state of the browser handle
  browserCloses, \* number of browser.close() invocations
  att,           \* per candidate: state of its worker call
  slot,          \* per runner slot (runNext chain): state and current candidate
  index,         \* the runner's shared cursor
  resolved,      \* race runner: resolved flag
  result,        \* race runner: result
  results,       \* gather runner: results
  runner,        \* state of the runner call
  successes,     \* handler: accepted sources
  successUrl,    \* handler: successUrl (0 is null)
  html,          \* handler: html selected for the response
  \* aggregation (SpecAgg)
  apc,           \* position in the summarisation block
  asuccesses,    \* successes as seen by the summarisation block
  ahtml,         \* html as seen by the summarisation block
  ai,            \* loop index of the loop in progress
  sourceTexts,   \* sourceTexts
  combined,      \* combined, as the sequence of the chunks appended
  usedUrls,      \* usedUrls
  listed,        \* URLs written into sourcesBlock
  aresp,         \* response of the summarisation block
  \* one worker call in detail (SpecAttempt)
  one,           \* the call's inputs, locals and effects
  \* the search-results phase (SpecSerp)
  serp,          \* rawResults, preferredCandidates and the outcome
  \* checkRobotsTxt (SpecRobots)
  robots,        \* the call's inputs, locals and result
  \* RateLimiter (SpecGate)
  gate,          \* clock, lastRequestTime and the calls of waitIfNeeded
  \* one request (SpecRequest)
  req            \* the query, the side effects and the response

hvars == <<version, N, conc, hpc, resp, browser, browserCloses, att, slot,
           index, resolved, result, results, runner, successes, successUrl,
           html>>
avars == <<apc, asuccesses, ahtml, ai, sourceTexts, combined, usedUrls, listed,
           aresp>>
xvars == <<one, serp, robots, gate, req>>
vars == <<hvars, avars, xvars>>

IsRace == version \in {"race", "polite"}

\* ------------------------------------------------------------ html values
\* The HTML string a worker produced for candidate c (the wrapped article or
\* the raw page; which of the two is the attempt's `kind`).  NoHtml is null,
\* SerpHtml the search-results page.
Html(c) == [of |-> c]
NoHtml == [of |-> 0]
SerpHtml == [of |-> -1]

\* ------------------------------------------------------- attempt records
IdleAtt == [pc |-> "idle", page |-> "none", reads |-> 0, closes |-> 0,
            ret |-> "none", kind |-> "none", exit |-> "none", http |-> "none"]

\* Faulty variant of StartAtt: the worker starts at browser.newPage().
StartAtt_NoRobots == [IdleAtt EXCEPT !.pc = "newPage"]

\* The synchronous head of worker(candidateUrl): up to its first await.
StartAtt == [IdleAtt EXCEPT !.pc = IF version = "polite" THEN "robots" ELSE "newPage"]

\* What the worker call on candidate c returns on success: the html string
\* (race versions) or { url, html } (gather version).
WorkerValue(c) ==
  IF version = "gather" THEN [url |-> c, html |-> Html(c)] ELSE Html(c)

\* ------------------------------------------------------------ the runners
\* Faulty variant of CatchNull: the .catch(() => null) is missing.
CatchNull_Missing(out) == out

\* worker(input).catch(() => null)
CatchNull(out) == IF out = "throw" THEN "null" ELSE out

\* race runNext, from its first line to the call of worker(input):
\* the new cursor and the candidate claimed (0: none).
RunNextRace(idx, res) ==
  IF res THEN [index |-> idx, claim |-> 0]
  ELSE IF idx >= N THEN [index |-> idx + 1, claim |-> 0]
  ELSE [index |-> idx + 1, claim |-> idx + 1]

\* gather runNext: the head of the while loop.
RunNextGather(idx) ==
  IF idx < N THEN [index |-> idx + 1, claim |-> idx + 1]
  ELSE [index |-> idx, claim |-> 0]

\* Faulty variant of RunNext: the cursor is read but not advanced.
RunNext_NoAdvance(idx, res) ==
  [index |-> idx, claim |-> IF idx < N THEN idx + 1 ELSE 0]

\* `const myIndex = index++` and what precedes it, in either runner
RunNext(idx, res) == IF IsRace THEN RunNextRace(idx, res) ELSE RunNextGather(idx)

\* Math.max(1, Math.min(concurrency, inputs.length))
Max(a, b) == IF a >= b THEN a ELSE b
Min(a, b) == IF a <= b THEN a ELSE b
\* Faulty variant of PoolSize: one runner per candidate.
PoolSize_PerCandidate(cc, n) == Max(1, n)

PoolSize(cc, n) == Max(1, Min(cc, n))

SlotOf(claim) == IF claim = 0 THEN [st |-> "done", cur |-> 0]
                 ELSE [st |-> "busy", cur |-> claim]

\* for (let i = 0; i < PoolSize; i++) runners.push(runNext())
\* Each runNext() runs synchronously up to its await; nothing resolves meanwhile.
RECURSIVE StartSlots(_, _, _)
StartSlots(i, idx, acc) ==
  IF i >= PoolSize(conc, N) THEN [index |-> idx, slots |-> acc]
  ELSE LET r == RunNext(idx, FALSE)
       IN StartSlots(i + 1, r.index, Append(acc, SlotOf(r.claim)))

\* Faulty variant of Collect: the null test is lost, every outcome is pushed.
Collect_PushAll(rs, o, v) == Append(rs, v)

\* `if (out !== null) results.push(out)` of the gather runNext
Collect(rs, o, v) == IF o # "null" THEN Append(rs, v) ELSE rs

\* Faulty variant of Accepts: resolved is not looked at.
Accepts_Overwrite(res, o) == o # "null"

\* Faulty variant of Accepts: the null test is inverted.
Accepts_Inverted(res, o) == ~res /\ o = "null"

\* `if (!resolved && out !== null)` of the race runNext
Accepts(res, o) == ~res /\ o # "null"

\* Faulty variant of GoesOn: the slot stops after its first attempt.
GoesOn_Never(res) == FALSE

\* `if (!resolved) await runNext()`: whether the slot goes on after a
\* result that was not accepted
GoesOn(res) == ~res

\* Faulty variant of Continuation: the race runner loops like the gather runner
\* (`while (index < inputs.length)`), without looking at resolved.
Continuation_GatherLoop(s, c, o0, v) ==
  LET o == CatchNull(o0)
      base == [st |-> "done", index |-> index, resolved |-> resolved,
               result |-> result, results |-> results, claim |-> 0]
      r == RunNextGather(index)
  IN IF o = "throw" THEN [base EXCEPT !.st = "rejected"]
     ELSE IF IsRace /\ Accepts(resolved, o)
       THEN [base EXCEPT !.resolved = TRUE, !.result = v]
     ELSE [base EXCEPT !.results = IF IsRace THEN results ELSE Collect(results, o, v),
                       !.index = r.index, !.claim = r.claim,
                       !.st = SlotOf(r.claim).st]

\* The continuation of runNext after `await worker(input).catch(...)` for
\* slot s, whose worker call on candidate c settled with outcome o0
\* ("ok", "null" or "throw") and value v.
Continuation(s, c, o0, v) ==
  LET o == CatchNull(o0)
      base == [st |-> "done", index |-> index, resolved |-> resolved,
               result |-> result, results |-> results, claim |-> 0]
  IN IF o = "throw" THEN [base EXCEPT !.st = "rejected"]
     ELSE IF IsRace THEN
       IF Accepts(resolved, o)
         THEN [base EXCEPT !.resolved = TRUE, !.result = v]
       ELSE IF GoesOn(resolved)
         THEN LET r == RunNextRace(index, resolved)
              IN [base EXCEPT !.index = r.index, !.claim = r.claim,
                              !.st = SlotOf(r.claim).st]
       ELSE base
     ELSE
       LET r == RunNextGather(index)
       IN [base EXCEPT !.results = Collect(results, o, v),
                       !.index = r.index, !.claim = r.claim,
                       !.st = SlotOf(r.claim).st]

\* The slot whose runNext awaits the worker call on candidate c.
SlotFor(c) == CHOOSE s \in 1..Len(slot) : slot[s].st = "busy" /\ slot[s].cur = c

\* The worker call on c moves to attempt record a without settling.
Step(c, a) ==
  /\ att' = [att EXCEPT ![c] = a]
  /\ UNCHANGED <<slot, index, resolved, result, results>>

\* The worker call on c settles (attempt record a, a.ret its outcome) and
\* its slot's continuation runs.  The worker's locals die with the call:
\* only the page, the number of close calls and the outcome are kept.
Settle(c, a) ==
  LET s == SlotFor(c)
      fin == [a EXCEPT !.pc = "settled", !.reads = 0, !.exit = "none",
                       !.http = "none", !.kind = "none"]
      v == IF a.ret = "ok" THEN WorkerValue(c) ELSE NoHtml
      k == Continuation(s, c, a.ret, v)
  IN /\ att' = IF k.claim = 0 THEN [att EXCEPT ![c] = fin]
               ELSE [att EXCEPT ![c] = fin, ![k.claim] = StartAtt]
     /\ slot' = [slot EXCEPT ![s] = [st |-> k.st, cur |-> k.claim]]
     /\ index' = k.index
     /\ resolved' = k.resolved
     /\ result' = k.result
     /\ results' = k.results

\* Everything a worker step leaves alone besides the runner's variables.
wframe == UNCHANGED <<version, N, conc, hpc, resp, browser, browserCloses,
                      runner, html, avars, xvars>>
noPush == UNCHANGED <<successes, successUrl>>

\* ------------------------------------------------------------- the worker
\* Faulty variant of EnterFinally: the finally block does not call p.close().
EnterFinally_NoClose(c, a, r, why) ==
  Step(c, [a EXCEPT !.pc = "closing", !.ret = r, !.exit = why, !.reads = 0])

\* `return`/`throw` inside the outer try: the catch turns a throw into
\* `return null`, then the finally block invokes p.close() and awaits it.
\* (http and reads are locals no later code reads.)
EnterFinally(c, a, r, why) ==
  Step(c, [a EXCEPT !.pc = "closing", !.ret = r, !.exit = why,
                    !.page = "closing", !.closes = a.closes + 1,
                    !.reads = 0])

\* polite: `await checkRobotsTxt(...)` returned.
RobotsDone(c) ==
  /\ att[c].pc = "robots"
  /\ \E isAllowed \in BOOLEAN :
       IF isAllowed
         THEN Step(c, [att[c] EXCEPT !.pc = "newPage"])
         ELSE Settle(c, [att[c] EXCEPT !.ret = "null", !.exit = "robots_denied"])
  /\ noPush /\ wframe

\* `await browser.newPage()` settled.  gather, polite: a rejection is caught
\* and the worker returns null.  race: newPage is outside the try, the
\* worker call rejects.
NewPageDone(c) ==
  /\ att[c].pc = "newPage"
  /\ \E ok \in BOOLEAN :
       IF ok
         THEN Step(c, [att[c] EXCEPT !.pc = "stealth", !.page = "open"])
         ELSE Settle(c, [att[c] EXCEPT !.exit = "page_creation_failed",
                           !.ret = IF version = "race" THEN "throw" ELSE "null"])
  /\ noPush /\ wframe

\* `await applyPageStealth(p, ...)` (gather: and setupResourceBlocking) settled.
StealthDone(c) ==
  /\ att[c].pc = "stealth"
  /\ \E ok \in BOOLEAN :
       IF ok
         THEN Step(c, [att[c] EXCEPT !.pc = IF version = "polite" THEN "gate" ELSE "pause"])
         ELSE EnterFinally(c, att[c], "null", "stealth_setup_failed")
  /\ noPush /\ wframe

\* polite: `await rateLimiter.waitIfNeeded()` returned; p.goto is invoked.
GateDone(c) ==
  /\ att[c].pc = "gate"
  /\ Step(c, [att[c] EXCEPT !.pc = "goto"])
  /\ noPush /\ wframe

\* gather, race: `await sleep(randomInt(..))` returned; p.goto is invoked.
PauseDone(c) ==
  /\ att[c].pc = "pause"
  /\ Step(c, [att[c] EXCEPT !.pc = "goto"])
  /\ noPush /\ wframe

GotoOutcomes == IF version = "polite"
                  THEN {"ok", "429", "blocked", "other", "nav_error"}
                  ELSE {"ok", "nav_error"}

\* `await p.goto(...)` settled.  polite inspects the status: 429 waits and
\* throws, 403/503 throw, every other status (also >= 400) goes on.
GotoDone(c) ==
  /\ att[c].pc = "goto"
  /\ \E o \in GotoOutcomes :
       LET a == [att[c] EXCEPT !.http = IF version = "polite" /\ o # "nav_error"
                                          THEN o ELSE "none"]
       IN CASE o = "nav_error" -> EnterFinally(c, a, "null", "navigation_failed")
            [] o = "429"       -> Step(c, [a EXCEPT !.pc = "backoff"])
            [] o = "blocked"   -> EnterFinally(c, a, "null", "http_error")
            [] OTHER           -> Step(c, [a EXCEPT !.pc = "settle"])
  /\ noPush /\ wframe

\* polite, 429: the Retry-After sleep or backoff(1) returned; the worker throws.
BackoffDone(c) ==
  /\ att[c].pc = "backoff"
  /\ EnterFinally(c, att[c], "null", "http_error")
  /\ noPush /\ wframe

\* The redirect-settle race (gather: and simulateHumanBehavior, which
\* swallows its errors) is over; readContentWithRetry invokes p.content().
SettleWaitDone(c) ==
  /\ att[c].pc = "settle"
  /\ Step(c, [att[c] EXCEPT !.pc = "read", !.reads = 1, !.http = "none"])
  /\ noPush /\ wframe

maxAttempts == 3

\* The admission gate on the fetched html.
Admission(short, adsig, challenge) ==
  IF short \/ adsig THEN "parked_or_ad"
  ELSE IF challenge THEN "cloudflare_challenge"
  ELSE "admit"

\* What the worker returns for an admitted page: the wrapped article when
\* Readability gave a title and content, else the raw html.
ExtractKind(x) == IF x = "article" THEN "wrapped" ELSE "raw"

\* Faulty variant of Push: only the first success is recorded.
Push_FirstOnly(list, c) ==
  IF list = <<>> THEN <<[url |-> c, html |-> Html(c)]>> ELSE list

\* successes.push({ url, html })
Push(list, c) == Append(list, [url |-> c, html |-> Html(c)])

\* `await withTimeout(p.content(), ...)` settled.  On success the admission
\* gate, the extraction, the push onto successes and the entry into the
\* finally block follow without an await.
ReadDone(c) ==
  /\ att[c].pc = "read"
  /\ \E o \in {"ok", "destroyed", "error"} :
       CASE o = "destroyed" ->
              /\ Step(c, [att[c] EXCEPT !.pc = "readSleep"])
              /\ noPush
         [] o = "error" ->
              /\ EnterFinally(c, att[c], "null", "content_read_failed")
              /\ noPush
         [] OTHER ->
              \E short, adsig, challenge \in BOOLEAN :
                LET verdict == Admission(short, adsig, challenge)
                IN IF verdict # "admit"
                     THEN /\ EnterFinally(c, att[c], "null", verdict)
                          /\ noPush
                     ELSE \E x \in {"article", "none", "throws"} :
                          /\ EnterFinally(c, [att[c] EXCEPT !.kind = ExtractKind(x)],
                                          "ok", "success")
                          /\ successUrl' = IF successUrl = 0 THEN c ELSE successUrl
                          /\ successes' = Push(successes, c)
  /\ wframe

\* `await sleep(..)` after an 'Execution context was destroyed' read error:
\* the for loop reads again while attempt <= maxAttempts, else lastError is thrown.
ReadSleepDone(c) ==
  /\ att[c].pc = "readSleep"
  /\ IF att[c].reads < maxAttempts
       THEN Step(c, [att[c] EXCEPT !.pc = "read", !.reads = att[c].reads + 1])
       ELSE EnterFinally(c, att[c], "null", "content_read_failed")
  /\ noPush /\ wframe

\* finally: `await withTimeout(p.close(), 2_000, ..)` settled: resolved
\* ("closed") or rejected or timed out ("close_failed": the error is swallowed
\* and the page may still be open), and the worker call settles with the
\* value kept from the try/catch.
CloseDone(c) ==
  /\ att[c].pc = "closing"
  /\ \E o \in {"closed", "close_failed"} :
       Settle(c, [att[c] EXCEPT !.page = o])
  /\ noPush /\ wframe

\* ------------------------------------------------------------ the handler
\* Everything a handler step leaves alone in the runner and the workers.
rframe == UNCHANGED <<att, slot, index, resolved, result, results>>
cframe == UNCHANGED <<version, N, conc, avars, xvars>>

\* The detailed models are idle while the handler model runs.
Off == [pc |-> "off"]
XIdle == one = Off /\ serp = Off /\ robots = Off /\ gate = Off /\ req = Off

\* The aggregation block is idle while the handler model runs.
AggIdle ==
  /\ apc = "off" /\ asuccesses = <<>> /\ ai = 0 /\ sourceTexts = <<>>
  /\ ahtml = [titleLen |-> 0, rawLen |-> 0]
  /\ combined = <<>> /\ usedUrls = <<>> /\ listed = <<>> /\ aresp = "none"

\* State at the entry of GET.  The runner is generic in `concurrency`
\* (the handlers pass 2, the gather handler 4).
Init ==
  /\ version \in Versions
  /\ N \in 0..MaxN
  /\ conc \in ConcSet
  /\ hpc = "query"
  /\ resp = "none"
  /\ browser = "none"
  /\ browserCloses = 0
  /\ att = [c \in 1..N |-> IdleAtt]
  /\ slot = <<>>
  /\ index = 0
  /\ resolved = FALSE
  /\ result = NoHtml
  /\ results = <<>>
  /\ runner = "idle"
  /\ successes = <<>>
  /\ successUrl = 0
  /\ html = NoHtml
  /\ AggIdle
  /\ XIdle

\* `if (!query) return new Response(..., { status: 400 })`, else
\* puppeteer.launch is invoked.
QueryCheck ==
  /\ hpc = "query"
  /\ \E hasQuery \in BOOLEAN :
       IF hasQuery THEN hpc' = "launch" /\ resp' = resp
       ELSE hpc' = "done" /\ resp' = "400"
  /\ UNCHANGED <<browser, browserCloses, runner, successes, successUrl, html>>
  /\ rframe /\ cframe

\* What a failure becomes: gather and polite catch it and answer 500; the
\* race version has neither a catch around launch nor a catch block.
FailureResponse == IF version = "race" THEN "exception" ELSE "500"

\* `await puppeteer.launch(env.MYBROWSER)` settled.
Launch ==
  /\ hpc = "launch"
  /\ \E ok \in BOOLEAN :
       IF ok THEN hpc' = "serp" /\ browser' = "open" /\ resp' = resp
       ELSE hpc' = "done" /\ browser' = browser /\ resp' = FailureResponse
  /\ UNCHANGED <<browserCloses, runner, successes, successUrl, html>>
  /\ rframe /\ cframe

\* The search-page phase: page creation, stealth setup, navigation, content
\* read and anchor evaluation; any of them may throw.  Then the candidate
\* list is built; an empty list throws.
Serp ==
  /\ hpc = "serp"
  /\ \E o \in {"ok", "page_creation", "stealth", "navigation", "evaluate"} :
       IF o = "ok" /\ N > 0 THEN hpc' = "run" ELSE hpc' = "catch"
  /\ UNCHANGED <<resp, browser, browserCloses, runner, successes, successUrl, html>>
  /\ rframe /\ cframe

\* The handler calls the runner: `if (inputs.length === 0) return ...`, the
\* cursor and flags are initialised and the pool of runNext() calls starts.
RunnerStart ==
  /\ hpc = "run" /\ runner = "idle"
  /\ LET st == StartSlots(0, 0, <<>>)
     IN IF N = 0
          THEN UNCHANGED <<slot, index, att>>
          ELSE /\ slot' = st.slots
               /\ index' = st.index
               /\ att' = [c \in 1..N |->
                            IF \E s \in 1..Len(st.slots) : st.slots[s].cur = c
                              THEN StartAtt ELSE att[c]]
  /\ runner' = "running"
  /\ UNCHANGED <<hpc, resp, browser, browserCloses, resolved, result, results,
                 successes, successUrl, html>>
  /\ cframe

\* Promise.all(runners) settles: it resolves when every runNext chain has
\* returned and rejects as soon as one of them rejects.
AllDone == \A s \in 1..Len(slot) : slot[s].st = "done"
AnyRejected == \E s \in 1..Len(slot) : slot[s].st = "rejected"
\* Faulty variant of RunnerSettled: the runner returns as soon as a result is
\* recorded, as firstNonNull does.
RunnerSettled_Early == resolved \/ AllDone \/ AnyRejected

RunnerSettled == AllDone \/ AnyRejected

\* Faulty variant of SerpFallback: html is left as the runner gave it.
SerpFallback_None(h) == h

\* `if (!html) html = serpHtml`
SerpFallback(h) == IF h # NoHtml THEN h ELSE SerpHtml

\* `await Promise.all(runners); return result` and the handler's code up to
\* the summarisation call: html and (gather) successes/successUrl are taken
\* from the runner's value, html falls back to the search-results html
\* (SerpHtml).
RunnerReturn ==
  /\ hpc = "run" /\ runner = "running"
  /\ RunnerSettled
  /\ IF AnyRejected
       THEN /\ runner' = "rejected"
            /\ hpc' = "catch"
            /\ UNCHANGED <<successes, successUrl, html>>
       ELSE /\ runner' = "returned"
            /\ hpc' = "summarize"
            /\ IF IsRace
                 THEN /\ html' = SerpFallback(result)
                      /\ UNCHANGED <<successes, successUrl>>
                 ELSE IF Len(results) > 0
                   THEN /\ successes' = results
                        /\ html' = SerpFallback(results[1].html)
                        /\ successUrl' = results[1].url
                   ELSE /\ html' = SerpFallback(NoHtml)
                        /\ UNCHANGED <<successes, successUrl>>
  /\ UNCHANGED <<resp, browser, browserCloses>>
  /\ rframe /\ cframe

\* Faulty variant of SummaryResponse: a summarisation error reaches the
\* handler's catch.
SummaryResponse_Fatal(o) ==
  IF o = "text" THEN "200text" ELSE IF o = "empty" THEN "200html"
  ELSE FailureResponse

\* The response after the summarisation block: its own try/catch swallows
\* the error.
SummaryResponse(o) == IF o = "text" THEN "200text" ELSE "200html"

\* `await ai.models.generateContent(...)` settled: a non-empty summary is
\* answered as text/plain, an empty one or an error falls through to the
\* html response.
Summarize ==
  /\ hpc = "summarize"
  /\ \E o \in {"text", "empty", "throws"} : resp' = SummaryResponse(o)
  /\ hpc' = "finally"
  /\ UNCHANGED <<browser, browserCloses, runner, successes, successUrl, html>>
  /\ rframe /\ cframe

\* catch (e): the 500 response (race version: no catch block, the error
\* propagates through the finally block).
Catch ==
  /\ hpc = "catch"
  /\ resp' = FailureResponse
  /\ hpc' = "finally"
  /\ UNCHANGED <<browser, browserCloses, runner, successes, successUrl, html>>
  /\ rframe /\ cframe

\* finally: browser.close() is invoked under withTimeout.
Finally ==
  /\ hpc = "finally"
  /\ browser' = "closing"
  /\ browserCloses' = browserCloses + 1
  /\ hpc' = "closeWait"
  /\ UNCHANGED <<resp, runner, successes, successUrl, html>>
  /\ rframe /\ cframe

\* `await withTimeout(browser.close(), 10000, ..)` settled; errors are swallowed.
BrowserCloseDone ==
  /\ hpc = "closeWait"
  /\ \E o \in {"closed", "close_failed"} : browser' = o
  /\ hpc' = "done"
  /\ UNCHANGED <<resp, browserCloses, runner, successes, successUrl, html>>
  /\ rframe /\ cframe

Next ==
  \/ QueryCheck
  \/ Launch
  \/ Serp
  \/ RunnerStart
  \/ \E c \in 1..N : RobotsDone(c)
  \/ \E c \in 1..N : NewPageDone(c)
  \/ \E c \in 1..N : StealthDone(c)
  \/ \E c \in 1..N : GateDone(c)
  \/ \E c \in 1..N : PauseDone(c)
  \/ \E c \in 1..N : GotoDone(c)
  \/ \E c \in 1..N : BackoffDone(c)
  \/ \E c \in 1..N : SettleWaitDone(c)
  \/ \E c \in 1..N : ReadDone(c)
  \/ \E c \in 1..N : ReadSleepDone(c)
  \/ \E c \in 1..N : CloseDone(c)
  \/ RunnerReturn
  \/ Summarize
  \/ Catch
  \/ Finally
  \/ BrowserCloseDone

Spec == Init /\ [][Next]_vars

\* The runner called on its own, on any list of inputs, the empty one
\* included (`if (inputs.length === 0) return null`; the handlers never pass
\* an empty list).
InitRunner ==
  /\ version \in Versions
  /\ N \in 0..MaxN
  /\ conc \in ConcSet
  /\ hpc = "run"
  /\ resp = "none"
  /\ browser = "open"
  /\ browserCloses = 0
  /\ att = [c \in 1..N |-> IdleAtt]
  /\ slot = <<>>
  /\ index = 0
  /\ resolved = FALSE
  /\ result = NoHtml
  /\ results = <<>>
  /\ runner = "idle"
  /\ successes = <<>>
  /\ successUrl = 0
  /\ html = NoHtml
  /\ AggIdle
  /\ XIdle

NextRunner ==
  \/ RunnerStart
  \/ \E c \in 1..N : RobotsDone(c)
  \/ \E c \in 1..N : NewPageDone(c)
  \/ \E c \in 1..N : StealthDone(c)
  \/ \E c \in 1..N : GateDone(c)
  \/ \E c \in 1..N : PauseDone(c)
  \/ \E c \in 1..N : GotoDone(c)
  \/ \E c \in 1..N : BackoffDone(c)
  \/ \E c \in 1..N : SettleWaitDone(c)
  \/ \E c \in 1..N : ReadDone(c)
  \/ \E c \in 1..N : ReadSleepDone(c)
  \/ \E c \in 1..N : CloseDone(c)
  \/ RunnerReturn

SpecRunner == InitRunner /\ [][NextRunner]_vars

\* ------------------------------------------------------------ aggregation
\* The summarisation block of the handler (the same code in the three
\* versions), on an arbitrary list of accepted sources.  Strings are
\* modelled by their lengths; a source's html is modelled by what parseHTML
\* finds in it: the length of the <title> text (0: none) and the length of
\* the trimmed <article>/<body> text.
perSourceLimit == 20000
maxTotal == 120000

UrlLens == {20, 70000}
TitleLens == {0, 10}
RawLens == {0, 5, 130000}
SourceAttrs == [urlLen : UrlLens, titleLen : TitleLens, rawLen : RawLens]

\* Faulty variant of SnippetLen: the snippet is not sliced.
SnippetLen_NoSlice(titleLen, rawLen) ==
  (IF titleLen > 0 THEN 7 + titleLen + 2 ELSE 0) + rawLen

\* `${title ? `Title: ${title}\n\n` : ""}${rawText}`.slice(0, perSourceLimit)
SnippetLen(titleLen, rawLen) ==
  Min((IF titleLen > 0 THEN 7 + titleLen + 2 ELSE 0) + rawLen, perSourceLimit)

\* `\n\n[Source: ${s.url}]\n${s.text}`
ChunkLen(s) == 11 + s.urlLen + 2 + s.text

RECURSIVE SumLen(_)
SumLen(q) == IF q = <<>> THEN 0 ELSE q[1].len + SumLen(Tail(q))

\* combined.length
CombinedLen == SumLen(combined)

\* Faulty variant of Overflows: the test forgets the chunk about to be appended.
Overflows_BeforeAppend(len, chunk) == len > maxTotal

\* `if (combined.length + nextChunk.length > maxTotal) break`
Overflows(len, chunk) == len + chunk > maxTotal

\* Faulty variant of AfterOverflow: `continue` instead of `break`.
AfterOverflow_Continue(i) == i + 1

\* The loop index after the overflow test fired: `break` leaves the loop.
AfterOverflow(i) == Len(sourceTexts) + 1

Urls(q) == [i \in 1..Len(q) |-> q[i].url]

\* successUrl as the summarisation block sees it: the first accepted
\* source's url, null (0) when there is none.
ASuccessUrl == IF Len(asuccesses) > 0 THEN asuccesses[1].url ELSE 0

\* The url 0 ("unknown") of the fallback entry has 7 characters.
UnknownUrlLen == Len("unknown")

aframe == UNCHANGED <<hvars, xvars>>

HandlerParked ==
  /\ version = "polite" /\ N = 0 /\ conc = 2 /\ hpc = "summarize"
  /\ resp = "none" /\ browser = "open" /\ browserCloses = 0
  /\ att = <<>> /\ slot = <<>> /\ index = 0 /\ resolved = FALSE
  /\ result = NoHtml /\ results = <<>> /\ runner = "returned"
  /\ successes = <<>> /\ successUrl = 0 /\ html = NoHtml

\* Entry of the summarisation block: any list of accepted sources with
\* distinct urls; with no accepted source, html is the search-results page.
InitAgg ==
  /\ HandlerParked
  /\ \E n \in 0..MaxSources : \E f \in [1..n -> SourceAttrs] :
       /\ asuccesses = [i \in 1..n |-> [url |-> i, urlLen |-> f[i].urlLen,
                                         titleLen |-> f[i].titleLen,
                                         rawLen |-> f[i].rawLen]]
       /\ IF n = 0
            THEN ahtml \in [titleLen : TitleLens, rawLen : RawLens]
            ELSE ahtml = [titleLen |-> 0, rawLen |-> 0]
  /\ apc = "build"
  /\ ai = 1
  /\ sourceTexts = <<>>
  /\ combined = <<>>
  /\ usedUrls = <<>>
  /\ listed = <<>>
  /\ aresp = "none"
  /\ XIdle

\* One iteration of `for (const s of successes)`: a source without text is
\* skipped, else its snippet is pushed.  After the last one the combine loop
\* starts.
BuildSource ==
  /\ apc = "build" /\ Len(asuccesses) > 0
  /\ IF ai > Len(asuccesses)
       THEN /\ apc' = "combine" /\ ai' = 1
            /\ UNCHANGED sourceTexts
       ELSE LET s == asuccesses[ai]
            IN /\ sourceTexts' =
                    IF s.rawLen = 0 THEN sourceTexts
                    ELSE Append(sourceTexts,
                                [url |-> s.url, urlLen |-> s.urlLen,
                                 text |-> SnippetLen(s.titleLen, s.rawLen)])
               /\ ai' = ai + 1
               /\ apc' = apc
  /\ UNCHANGED <<asuccesses, ahtml, combined, usedUrls, listed, aresp>>
  /\ aframe

\* The else branch: one entry built from html, under successUrl ?? "unknown".
BuildFallback ==
  /\ apc = "build" /\ Len(asuccesses) = 0
  /\ sourceTexts' = <<[url |-> ASuccessUrl, urlLen |-> UnknownUrlLen,
                       text |-> SnippetLen(ahtml.titleLen, ahtml.rawLen)]>>
  /\ apc' = "combine" /\ ai' = 1
  /\ UNCHANGED <<asuccesses, ahtml, combined, usedUrls, listed, aresp>>
  /\ aframe

\* One iteration of `for (const s of sourceTexts)`; when the loop is left
\* the prompt is built and generateContent is invoked.
CombineStep ==
  /\ apc = "combine"
  /\ IF ai > Len(sourceTexts)
       THEN /\ apc' = "await"
            /\ UNCHANGED <<ai, combined, usedUrls>>
       ELSE LET s == sourceTexts[ai]
            IN IF Overflows(CombinedLen, ChunkLen(s))
                 THEN /\ ai' = AfterOverflow(ai)
                      /\ UNCHANGED <<apc, combined, usedUrls>>
                 ELSE /\ combined' = Append(combined, [url |-> s.url, len |-> ChunkLen(s)])
                      /\ usedUrls' = Append(usedUrls, s.url)
                      /\ ai' = ai + 1
                      /\ apc' = apc
  /\ UNCHANGED <<asuccesses, ahtml, sourceTexts, listed, aresp>>
  /\ aframe

\* The urls sourcesBlock lists under the answer.
SourcesBlock ==
  IF Len(asuccesses) > 0 THEN Urls(asuccesses)
  ELSE IF ASuccessUrl # 0 THEN <<ASuccessUrl>>
  ELSE <<>>

\* `await ai.models.generateContent(...)` settled.
SummaryDone ==
  /\ apc = "await"
  /\ \E o \in {"text", "empty", "throws"} :
       IF o = "text"
         THEN aresp' = "200text" /\ listed' = SourcesBlock
         ELSE aresp' = "200html" /\ listed' = listed
  /\ apc' = "done"
  /\ UNCHANGED <<asuccesses, ahtml, ai, sourceTexts, combined, usedUrls>>
  /\ aframe

NextAgg ==
  \/ BuildSource
  \/ BuildFallback
  \/ CombineStep
  \/ SummaryDone

SpecAgg == InitAgg /\ [][NextAgg]_vars

\* ------------------------------------------- one worker call in detail
\* One call of worker(candidateUrl) with its inputs kept in the state: the
\* navigation response, the outcome of every content read, the fetched
\* html and what the extraction gives.  The html is modelled by what the
\* admission gate looks at: its length, whether it holds the ad-placeholder
\* signature (/adsense\/domains\/caf\.js/i) and sigEnd, the position at
\* which the first match of a challenge signature ends (0: no match).
shortLimit == 400
challengeWindow == 200000

HtmlLens == {0, 399, 400, 200500}
SigEnds == {0, 30, 200000, 200001}
Pages == {h \in [len : HtmlLens, adsig : BOOLEAN, sigEnd : SigEnds] :
            h.sigEnd <= h.len /\ (h.adsig => h.len >= 22)}
BlankPage == [len |-> 0, adsig |-> FALSE, sigEnd |-> 0]

\* response of p.goto: 0 stands for a null response
Statuses == {0, 200, 404, 429, 403, 500, 503}
\* the Retry-After header of a 429: absent, a number of seconds, an HTTP date
RetryAfters == {"absent", "seconds", "date"}
\* Readability(...).parse(): an article with title and content, one without
\* title, one without content, null, or an exception in parseHTML/parse
Extractions == {"article", "no_title", "no_content", "null", "throws"}

\* Faulty variant of IsCloudflareChallenge: the signals are tested on the
\* first shortLimit characters only.
IsCloudflareChallenge_ShortWindow(h) == h.sigEnd > 0 /\ h.sigEnd <= shortLimit

\* isCloudflareChallenge(html): signals.some(re => re.test(html.slice(0, 200_000)))
IsCloudflareChallenge(h) == h.sigEnd > 0 /\ h.sigEnd <= challengeWindow

\* Faulty variant of IsShort: `<=` instead of `<`, and empty html passes.
IsShort_Off(h) == h.len > 0 /\ h.len <= shortLimit - 2

\* candidateHtml.length < 400
IsShort(h) == h.len < shortLimit

\* The verdict of the admission gate on html h.
Verdict(h) == Admission(IsShort(h), h.adsig, IsCloudflareChallenge(h))

\* What the 429 branch waits for: sleep(parseInt(retryAfter) * 1000) when the
\* header is present (parseInt of an HTTP date is NaN and sleep(NaN) does not
\* wait), else rateLimiter.backoff(1).
RetryWait(ra) ==
  CASE ra = "absent"  -> "backoff"
    [] ra = "seconds" -> "retry_after"
    [] OTHER          -> "none"

\* The statuses for which the status check throws.
Throws(st) == st \in {429, 403, 503}

StartOne == [pc |-> IF version = "polite" THEN "robots" ELSE "newPage",
             pages |-> 0, gates |-> 0,
             status |-> -1, waited |-> "none", navs |-> 0,
             reads |-> 0, destroyed |-> 0, lastErr |-> "none",
             content |-> "none",
             html |-> BlankPage, x |-> "none", ran |-> FALSE,
             ret |-> "none", exit |-> "none", pushed |-> <<>>, closes |-> 0]

\* The handler is parked inside the runner call while the worker call is
\* looked at alone.
HandlerParkedIn(vs) ==
  /\ version \in vs /\ N = 0 /\ conc = 2 /\ hpc = "run"
  /\ resp = "none" /\ browser = "open" /\ browserCloses = 0
  /\ att = <<>> /\ slot = <<>> /\ index = 0 /\ resolved = FALSE
  /\ result = NoHtml /\ results = <<>> /\ runner = "running"
  /\ successes = <<>> /\ successUrl = 0 /\ html = NoHtml

InitAttempt ==
  /\ HandlerParkedIn(Versions)
  /\ AggIdle
  /\ one = StartOne
  /\ serp = Off /\ robots = Off /\ gate = Off /\ req = Off

oframe == UNCHANGED <<hvars, avars, serp, robots, gate, req>>

\* catch (e) { return null } finally { p.close() }: the worker leaves the
\* try with value r.
OneLeave(r, why) ==
  one' = [one EXCEPT !.pc = "closing", !.ret = r, !.exit = why,
                     !.closes = one.closes + 1]

\* Faulty variant of RobotsDenied: the verdict is logged and the worker
\* goes on.
RobotsDenied_GoesOn(a) == [a EXCEPT !.pc = "newPage", !.exit = "robots_denied"]

\* `if (!isAllowed) { skippedCount += 1; return null; }`
RobotsDenied(a) ==
  [a EXCEPT !.pc = "settled", !.ret = "null", !.exit = "robots_denied"]

\* polite: `await checkRobotsTxt(...)` returned.
OneRobots ==
  /\ one.pc = "robots"
  /\ \E isAllowed \in BOOLEAN :
       one' = IF isAllowed THEN [one EXCEPT !.pc = "newPage"]
              ELSE RobotsDenied(one)
  /\ oframe

\* `await browser.newPage()` settled.
OneNewPage ==
  /\ one.pc = "newPage"
  /\ \E ok \in BOOLEAN :
       one' = IF ok THEN [one EXCEPT !.pc = "stealth", !.pages = one.pages + 1]
              ELSE [one EXCEPT !.pc = "settled", !.exit = "page_creation_failed",
                      !.ret = IF version = "race" THEN "throw" ELSE "null"]
  /\ oframe

\* Stealth setup and the pause or rate-limiter gate before the navigation
\* (polite: waitIfNeeded() is entered and writes lastRequestTime);
\* p.goto is invoked.
OneStealth ==
  /\ one.pc = "stealth"
  /\ \E ok \in BOOLEAN :
       IF ok THEN one' = [one EXCEPT !.pc = "goto", !.navs = one.navs + 1,
                            !.gates = one.gates +
                                        IF version = "polite" THEN 1 ELSE 0]
       ELSE OneLeave("null", "stealth_setup_failed")
  /\ oframe

\* `await p.goto(...)` settled with a response (or null) or rejected.  Only
\* the polite version looks at the status.
OneGoto ==
  /\ one.pc = "goto"
  /\ \/ OneLeave("null", "navigation_failed")
     \/ \E st \in Statuses :
          LET a == [one EXCEPT !.status = st]
          IN IF version = "polite" /\ Throws(st)
               THEN IF st = 429
                      THEN \E ra \in RetryAfters :
                             one' = [a EXCEPT !.pc = "retryWait",
                                              !.waited = RetryWait(ra)]
                      ELSE one' = [a EXCEPT !.pc = "closing", !.ret = "null",
                                            !.exit = "http_error",
                                            !.closes = one.closes + 1]
               ELSE one' = [a EXCEPT !.pc = "settle"]
  /\ oframe

\* 429: the wait is over, `throw new Error("Rate limited ...")`.
OneRetryWait ==
  /\ one.pc = "retryWait"
  /\ OneLeave("null", "http_error")
  /\ oframe

\* The redirect-settle race is over; readContentWithRetry(3) invokes
\* p.content() for attempt 1.
OneSettleWait ==
  /\ one.pc = "settle"
  /\ one' = [one EXCEPT !.pc = "read", !.reads = 1]
  /\ oframe

\* err.message.includes("Execution context was destroyed")
Retryable(err) == err = "destroyed"

\* Faulty variant of MoreAttempts: `attempt <= maxAttempts` tested before
\* the increment.
MoreAttempts_OffByOne(n) == n <= maxAttempts

\* attempt++; attempt <= maxAttempts
MoreAttempts(n) == n + 1 <= maxAttempts

\* Faulty variant of Extracted: a throwing extraction fails the attempt.
Extracted_ThrowFails(x) == IF x = "throws" THEN "null"
                           ELSE ExtractKind(x)

\* What the worker returns for an admitted page.
Extracted(x) == ExtractKind(x)

\* `await withTimeout(p.content(), ...)` settled: the html, the transient
\* 'Execution context was destroyed' error, or another error (a timeout
\* among them).  After a successful read the admission gate and the
\* extraction run without an await.
OneRead ==
  /\ one.pc = "read"
  /\ \/ \E err \in {"destroyed", "timeout", "other"} :
          IF Retryable(err)
            THEN one' = [one EXCEPT !.pc = "readSleep", !.lastErr = err,
                                    !.destroyed = one.destroyed + 1]
            ELSE one' = [one EXCEPT !.pc = "closing", !.lastErr = err,
                                    !.ret = "null",
                                    !.exit = "content_read_failed",
                                    !.closes = one.closes + 1]
     \/ \E h \in Pages :
          LET a == [one EXCEPT !.content = "ok", !.html = h]
              verdict == Verdict(h)
          IN IF verdict # "admit"
               THEN one' = [a EXCEPT !.pc = "closing", !.ret = "null",
                                     !.exit = verdict, !.closes = one.closes + 1]
               ELSE \E x \in Extractions :
                      LET r == Extracted(x)
                      IN one' = [a EXCEPT !.pc = "closing", !.x = x, !.ran = TRUE,
                                   !.ret = r, !.exit = "success",
                                   !.pushed = IF r = "null" THEN one.pushed
                                              ELSE Append(one.pushed, r),
                                   !.closes = one.closes + 1]
  /\ oframe

\* `await sleep(300)` in the retry loop returned: the next attempt reads, or
\* the loop is over and lastError is thrown.
OneReadSleep ==
  /\ one.pc = "readSleep"
  /\ IF MoreAttempts(one.reads)
       THEN one' = [one EXCEPT !.pc = "read", !.reads = one.reads + 1]
       ELSE OneLeave("null", "content_read_failed")
  /\ oframe

\* finally: `await withTimeout(p.close(), 2_000, ..)` settled.
OneClose ==
  /\ one.pc = "closing"
  /\ one' = [one EXCEPT !.pc = "settled"]
  /\ oframe

NextAttempt ==
  \/ OneRobots
  \/ OneNewPage
  \/ OneStealth
  \/ OneGoto
  \/ OneRetryWait
  \/ OneSettleWait
  \/ OneRead
  \/ OneReadSleep
  \/ OneClose

SpecAttempt == InitAttempt /\ [][NextAttempt]_vars

\* What the code's timers guarantee about one worker call: p.goto has its
\* navigation timeout, p.content() and p.close() run under withTimeout, the
\* waits are timers, so each of these awaits settles.  The fetch of
\* robots.txt inside checkRobotsTxt has no timeout and no abort signal:
\* nothing makes OneRobots happen.
SpecAttemptLive ==
  /\ SpecAttempt
  /\ WF_vars(OneNewPage) /\ WF_vars(OneStealth) /\ WF_vars(OneGoto)
  /\ WF_vars(OneRetryWait) /\ WF_vars(OneSettleWait) /\ WF_vars(OneRead)
  /\ WF_vars(OneReadSleep) /\ WF_vars(OneClose)

\* ------------------------------------------------------ normalizeDuckHref
\* Strings are sequences of characters over a small alphabet, plus tokens
\* that stand for a fixed run of characters: "http://h/" (scheme, host and
\* first slash of a destination), its encoded form "http%3A%2F%2Fh%2F",
\* and the fixed parts of the hrefs below.
MaxTail == 3

Chars == {"x", "%", "2", "5"}
HexDigits == {"2", "5"}

RECURSIVE SeqsUpTo(_)
SeqsUpTo(n) == IF n = 0 THEN {<<>>}
               ELSE LET r == SeqsUpTo(n - 1)
                    IN r \cup {Append(t, c) : t \in {q \in r : Len(q) = n - 1}, c \in Chars}
Tails == SeqsUpTo(MaxTail)

\* An absolute http URL: "http://h/" followed by a tail.
Url(t) == <<"http://h/">> \o t
Urls3 == {Url(t) : t \in Tails}

\* The character with code 0x<hi><lo>, for the hex digits of the alphabet.
ByteChar(hi, lo) ==
  CASE hi = "2" /\ lo = "5" -> "%"
    [] hi = "2" /\ lo = "2" -> "\""
    [] hi = "5" /\ lo = "2" -> "R"
    [] OTHER                -> "U"

\* encodeURIComponent: unreserved characters stay, the others become %XX.
RECURSIVE EncodeURIComponent(_)
EncodeURIComponent(s) ==
  IF s = <<>> THEN <<>>
  ELSE (CASE s[1] = "%"         -> <<"%", "2", "5">>
          [] s[1] = "http://h/" -> <<"http%3A%2F%2Fh%2F">>
          [] OTHER              -> <<s[1]>>) \o EncodeURIComponent(Tail(s))

\* Whether s starts with a well-formed escape.
EscapeAt(s) == Len(s) >= 3 /\ s[1] = "%" /\ s[2] \in HexDigits /\ s[3] \in HexDigits

\* urlObj.searchParams.get("uddg") on the query value s: percent-decoding
\* in which a '%' that starts no escape is kept.
RECURSIVE SearchParamsGet(_)
SearchParamsGet(s) ==
  IF s = <<>> THEN <<>>
  ELSE IF EscapeAt(s)
    THEN <<ByteChar(s[2], s[3])>> \o SearchParamsGet(SubSeq(s, 4, Len(s)))
  ELSE (IF s[1] = "http%3A%2F%2Fh%2F" THEN <<"http://h/">> ELSE <<s[1]>>)
       \o SearchParamsGet(Tail(s))

\* decodeURIComponent: a '%' that starts no escape throws URIError
\* (ok = FALSE).
RECURSIVE DecodeURIComponent(_)
DecodeURIComponent(s) ==
  IF s = <<>> THEN [ok |-> TRUE, val |-> <<>>]
  ELSE IF s[1] = "%"
    THEN IF EscapeAt(s)
           THEN LET r == DecodeURIComponent(SubSeq(s, 4, Len(s)))
                IN [ok |-> r.ok, val |-> <<ByteChar(s[2], s[3])>> \o r.val]
           ELSE [ok |-> FALSE, val |-> <<>>]
  ELSE LET r == DecodeURIComponent(Tail(s))
       IN [ok |-> r.ok,
           val |-> <<IF s[1] = "http%3A%2F%2Fh%2F" THEN "http://h/" ELSE s[1]>> \o r.val]

\* The hrefs: a redirector link "https://duckduckgo.com/l/?uddg=<payload>",
\* the same scheme-relative ("//duckduckgo.com/l/?uddg=<payload>"), a
\* redirector-like href the URL parser rejects
\* ("http://[duckduckgo.com/l/?uddg=<payload>"), a scheme-relative href the
\* parser rejects ("//["), and any other href, given as its text.
RedirectForms == {"redirect", "redirect_rel"}
Href(form, payload) == [form |-> form, payload |-> payload]

\* The text of an href that new URL accepts.
Text(h) ==
  IF h.form \in RedirectForms
    THEN <<"https://", "duckduckgo.com/l/?uddg=">> \o h.payload
    ELSE h.payload

\* normalizeDuckHref(inputHref): [ok |-> FALSE] when it throws.
NormalizeDuckHref(h) ==
  IF h.form \in {"redirect_bad", "rel_bad"}
    THEN [ok |-> FALSE, val |-> <<>>]
  ELSE IF h.form \in RedirectForms
    THEN LET uddg == SearchParamsGet(h.payload)
             d == DecodeURIComponent(uddg)
         IN IF uddg # <<>> /\ d.ok THEN [ok |-> TRUE, val |-> d.val]
            ELSE [ok |-> TRUE, val |-> Text(h)]
  ELSE [ok |-> TRUE, val |-> Text(h)]

\* The hrefs normalizeDuckHref is applied to: redirector links carrying an
\* encoded destination or some other query value, and other hrefs.
NormInputs ==
  {Href(f, EncodeURIComponent(u)) : f \in RedirectForms, u \in Urls3}
    \cup {Href(f, p) : f \in RedirectForms, p \in Tails}
    \cup {Href("redirect_bad", <<>>), Href("rel_bad", <<>>),
          Href("plain", Url(<<>>)), Href("plain", <<"javascript:">>)}

nframe == UNCHANGED <<hvars, avars, one, robots, gate, req>>

InitNormalize ==
  /\ HandlerParkedIn(Versions)
  /\ AggIdle
  /\ \E h \in NormInputs : serp = [pc |-> "normalize", href |-> h]
  /\ one = Off /\ robots = Off /\ gate = Off /\ req = Off

Normalize ==
  /\ serp.pc = "normalize"
  /\ serp' = [pc |-> "normalized", href |-> serp.href,
              out |-> NormalizeDuckHref(serp.href)]
  /\ nframe

NextNormalize == Normalize

SpecNormalize == InitNormalize /\ [][NextNormalize]_vars

\* ------------------------------------------------------ the candidate list
\* The handler from the anchors found on the search-results page
\* (rawResults) to the call of the runner.
MaxAnchors == 3

\* hrefs as page.evaluate returns them: redirector links whose destination
\* is an http URL, is not one, or cannot be decoded; a plain http URL (the
\* same destination as the first); a javascript: href; an ad-network URL; a
\* redirector-like href the URL parser rejects.
AnchorHrefs ==
  {Href("redirect", EncodeURIComponent(Url(<<>>))),
   Href("redirect", <<"x">>),
   Href("redirect", <<"%">>),
   Href("plain", Url(<<>>)),
   Href("plain", <<"javascript:">>),
   Href("plain", <<"https://", "google.com/adsense/domains">>),
   Href("redirect_bad", <<>>)}

\* rawResults: the page's anchors, each href once (`seen`).
RawLists ==
  UNION {{q \in [1..n -> [href : AnchorHrefs, isAd : BOOLEAN]] :
            \A i, j \in 1..n : i # j => q[i].href # q[j].href} : n \in 0..MaxAnchors}

\* /^https?:\/\//i.test(href)
IsHttp(s) == s # <<>> /\ s[1] \in {"http://h/", "https://"}

\* /google\.com\/adsense\/domains/i.test(href)
IsAdNetwork(s) == \E i \in 1..Len(s) : s[i] = "google.com/adsense/domains"

\* Array.from(new Set(list)): first occurrences, in order.
RECURSIVE Dedupe(_, _)
Dedupe(q, acc) ==
  IF q = <<>> THEN acc
  ELSE Dedupe(Tail(q), IF \E i \in 1..Len(acc) : acc[i] = q[1]
                         THEN acc ELSE Append(acc, q[1]))

\* Faulty variant of Keep: ad-flagged anchors pass.
Keep_Ads(r) == TRUE

\* .filter((r) => !r.isAd)
Keep(r) == ~r.isAd

\* preferredCandidates; ok = FALSE when normalizeDuckHref throws in the map.
PreferredCandidates(raw) ==
  LET nonAd == SelectSeq(raw, Keep)
      norm == [i \in 1..Len(nonAd) |-> NormalizeDuckHref(nonAd[i].href)]
      IsCandidate(h) == IsHttp(h) /\ ~IsAdNetwork(h)
  IN IF \E i \in 1..Len(norm) : ~norm[i].ok
       THEN [ok |-> FALSE, val |-> <<>>]
       ELSE [ok |-> TRUE,
             val |-> Dedupe(SelectSeq([i \in 1..Len(norm) |-> norm[i].val],
                                      IsCandidate), <<>>)]

sframe == UNCHANGED <<hvars, avars, one, robots, gate, req>>

\* The handler holds rawResults; the browser is open, the search page was
\* read.
InitSerp ==
  /\ HandlerParkedIn(Versions)
  /\ AggIdle
  /\ \E raw \in RawLists :
       serp = [pc |-> "evaluated", raw |-> raw, preferred |-> <<>>,
               error |-> "none", started |-> FALSE, resp |-> "none"]
  /\ one = Off /\ robots = Off /\ gate = Off /\ req = Off

\* preferredCandidates is built; an exception of normalizeDuckHref or the
\* empty list (`throw new Error("Failed to locate ...")`) leaves the try.
BuildCandidates ==
  /\ serp.pc = "evaluated"
  /\ LET p == PreferredCandidates(serp.raw)
     IN serp' = IF ~p.ok
                  THEN [serp EXCEPT !.pc = "catch", !.error = "invalid_url"]
                ELSE IF Len(p.val) = 0
                  THEN [serp EXCEPT !.pc = "catch", !.error = "no_candidates"]
                ELSE [serp EXCEPT !.pc = "ready", !.preferred = p.val]
  /\ sframe

\* catch (e): "Search failed: " + message, status 500 (race version: no
\* catch block).
CandidatesCatch ==
  /\ serp.pc = "catch"
  /\ serp' = [serp EXCEPT !.pc = "answered", !.resp = FailureResponse]
  /\ sframe

\* The runner is called on the candidate list: the first worker calls start.
CandidatesRun ==
  /\ serp.pc = "ready"
  /\ serp' = [serp EXCEPT !.pc = "running", !.started = TRUE]
  /\ sframe

NextSerp ==
  \/ BuildCandidates
  \/ CandidatesCatch
  \/ CandidatesRun

SpecSerp == InitSerp /\ [][NextSerp]_vars

\* ---------------------------------------------------------- checkRobotsTxt
\* One call of checkRobotsTxt(url, userAgent) from the polite worker.  The
\* robots.txt text is a sequence of lines, each given by its field and its
\* value as written: a User-agent line for "*", for the requesting agent
\* (in its own or in lower case) or for another one; a Disallow line with
\* an empty path, "/", or a path in lower or in mixed case; an Allow line;
\* any other line.  Agents and paths are sequences of characters.
MaxLines == 3

\* userAgent, as the handler passes it
RequestingAgent == <<"B">>
Agents == {<<"*">>, <<"B">>, <<"b">>, <<"o">>}
UrlPaths == {<<"/", "a">>, <<"/", "A">>}
DisallowPaths == {<<>>, <<"/">>, <<"/", "a">>, <<"/", "A">>, <<"/", "b">>}

LineKinds ==
  [field : {"user-agent"}, value : Agents]
    \cup [field : {"disallow"}, value : DisallowPaths]
    \cup [field : {"allow"}, value : {<<"/", "a">>}]
    \cup [field : {"other"}, value : {<<>>}]
RobotsTexts == UNION {[1..n -> LineKinds] : n \in 0..MaxLines}

\* String.prototype.toLowerCase on a value of a line or on userAgent
ToLowerCase(v) ==
  [i \in 1..Len(v) |-> IF v[i] = "A" THEN "a"
                       ELSE IF v[i] = "B" THEN "b" ELSE v[i]]

\* currentUserAgent === "*" || currentUserAgent === userAgent.toLowerCase()
Applies(cur) == cur = <<"*">> \/ cur = ToLowerCase(RequestingAgent)

\* The for loop over the lines, each trimmed and lower-cased: the
\* disallowedPaths it collects (empty paths are not recorded).
RECURSIVE DisallowedPaths(_, _, _)
DisallowedPaths(lines, cur, dis) ==
  IF lines = <<>> THEN dis
  ELSE LET l == lines[1]
           v == ToLowerCase(l.value)
       IN IF l.field = "user-agent"
            THEN DisallowedPaths(Tail(lines), v, dis)
          ELSE IF l.field = "disallow" /\ Applies(cur) /\ v # <<>>
            THEN DisallowedPaths(Tail(lines), cur, Append(dis, v))
          ELSE DisallowedPaths(Tail(lines), cur, dis)

\* urlPath.startsWith(prefix)
StartsWith(path, prefix) ==
  /\ Len(prefix) <= Len(path)
  /\ \A i \in 1..Len(prefix) : path[i] = prefix[i]

\* disallowedPath === "/" || urlPath.startsWith(disallowedPath), for some
\* collected path; urlPath is urlObj.pathname, as it is in the url.
Disallowed(dis, urlPath) ==
  \E i \in 1..Len(dis) : dis[i] = <<"/">> \/ StartsWith(urlPath, dis[i])

\* Faulty variant of FailOpen: the error is thrown on.
FailOpen_Rethrow(err) == "throw"

\* catch (error) { return true }
FailOpen(err) == "allow"

StartRobots(urlOk, path) ==
  [pc |-> "called", urlOk |-> urlOk, path |-> path, failure |-> "none",
   text |-> <<>>, read |-> FALSE, ret |-> "none", worker |-> "robots"]

bframe == UNCHANGED <<hvars, avars, one, serp, gate, req>>

\* The worker has called checkRobotsTxt on a candidate url that new URL
\* accepts or rejects.
InitRobots ==
  /\ HandlerParkedIn({"polite"})
  /\ AggIdle
  /\ \E urlOk \in BOOLEAN : \E path \in UrlPaths :
       robots = StartRobots(urlOk, path)
  /\ one = Off /\ serp = Off /\ gate = Off /\ req = Off

RobotsFail(err) ==
  robots' = [robots EXCEPT !.pc = "settled", !.failure = err, !.ret = FailOpen(err)]

\* new URL(url) and the call of fetch(robotsUrl).
RobotsCall ==
  /\ robots.pc = "called"
  /\ IF robots.urlOk THEN robots' = [robots EXCEPT !.pc = "fetch"]
     ELSE RobotsFail("bad_url")
  /\ bframe

\* `await fetch(robotsUrl, ...)` settled; `if (!response.ok) return true`.
RobotsFetchDone ==
  /\ robots.pc = "fetch"
  /\ \E o \in {"rejected", "not_ok", "ok"} :
       CASE o = "rejected" -> RobotsFail("fetch_rejected")
         [] o = "not_ok"   -> robots' = [robots EXCEPT !.pc = "settled",
                                           !.failure = "not_ok", !.ret = "allow"]
         [] OTHER          -> robots' = [robots EXCEPT !.pc = "text"]
  /\ bframe

\* `await response.text()` settled; the text is parsed and the url's path
\* is tested against the collected paths.
RobotsTextDone ==
  /\ robots.pc = "text"
  /\ \/ RobotsFail("text_rejected")
     \/ \E t \in RobotsTexts :
          robots' = [robots EXCEPT !.pc = "settled", !.text = t, !.read = TRUE,
                       !.ret = IF Disallowed(DisallowedPaths(t, <<>>, <<>>),
                                             robots.path)
                                 THEN "deny" ELSE "allow"]
  /\ bframe

\* The worker after `await checkRobotsTxt(...)`: `return null` when not
\* allowed, else browser.newPage() is called; a rejection would reject the
\* worker call (the await is outside the worker's try).
RobotsReturned ==
  /\ robots.pc = "settled"
  /\ robots' = [robots EXCEPT !.pc = "returned",
                  !.worker = CASE robots.ret = "allow" -> "newPage"
                               [] robots.ret = "deny"  -> "null"
                               [] OTHER                -> "throw"]
  /\ bframe

NextRobots ==
  \/ RobotsCall
  \/ RobotsFetchDone
  \/ RobotsTextDone
  \/ RobotsReturned

SpecRobots == InitRobots /\ [][NextRobots]_vars

\* ------------------------------------------------------------- RateLimiter
\* The handler's one RateLimiter(1500, 8000, 1500) and two callers of
\* waitIfNeeded (the pool keeps up to two workers in flight), each calling
\* it up to MaxCalls times, one call after the other.  Time is Date.now()
\* in milliseconds; it starts at StartClock and is followed for Horizon ms.
minDelay == 1500
baseDelay == 1500
MaxCalls == 2
StartClock == 10000
Horizon == 4000

Callers == {1, 2}
\* randomInt(0, 500), sampled
Jitters == {0, 250, 500}
\* how far the clock moves between two events
Ticks == {250, 1500}

\* Faulty variant of Delay: the smaller of the two.
Delay_Min(jitter) == Min(minDelay, baseDelay + jitter)

\* Math.max(this.minDelay, this.baseDelay + jitter)
Delay(jitter) == Max(minDelay, baseDelay + jitter)

\* Faulty variant of WaitTime: no wait.
WaitTime_None(delay, since) == 0

\* const waitTime = delay - timeSinceLastRequest
WaitTime(delay, since) == delay - since

IdleCaller == [pc |-> "idle", calls |-> 0, read |-> 0, jitter |-> 0,
               wake |-> 0, ret |-> 0, over |-> FALSE]

gframe == UNCHANGED <<hvars, avars, one, serp, robots, req>>

\* private lastRequestTime = 0
InitGate ==
  /\ HandlerParkedIn({"polite"})
  /\ AggIdle
  /\ gate = [pc |-> "on", now |-> StartClock, last |-> 0,
             w |-> [c \in Callers |-> IdleCaller]]
  /\ one = Off /\ serp = Off /\ robots = Off /\ req = Off

\* waitIfNeeded() up to its await: the clock and lastRequestTime are read
\* and the delay drawn; the caller either sleeps or, with no await in
\* between, writes lastRequestTime and returns.
GateCall(c) ==
  /\ gate.pc = "on"
  /\ gate.w[c].pc = "idle"
  /\ gate.w[c].calls < MaxCalls
  /\ \E j \in Jitters :
       LET since   == gate.now - gate.last
           delay   == Delay(j)
           o       == 3 - c
           busy    == gate.w[o].pc = "sleep"
           began   == [gate.w[c] EXCEPT !.read = gate.last, !.jitter = j,
                                        !.over = busy]
           other   == [gate.w[o] EXCEPT !.over = @ \/ busy]
       IN IF since < delay
            THEN gate' = [gate EXCEPT
                   !.w = [x \in Callers |->
                            IF x = c
                              THEN [began EXCEPT !.pc = "sleep",
                                      !.wake = gate.now + WaitTime(delay, since)]
                              ELSE other]]
            ELSE gate' = [gate EXCEPT
                   !.last = gate.now,
                   !.w = [x \in Callers |->
                            IF x = c
                              THEN [began EXCEPT !.calls = @ + 1,
                                                 !.ret = gate.now]
                              ELSE other]]
  /\ gframe

\* The timer of sleep(waitTime) has fired, at its time or later:
\* `this.lastRequestTime = Date.now()` and the call returns.
GateWake(c) ==
  /\ gate.pc = "on"
  /\ gate.w[c].pc = "sleep"
  /\ gate.now >= gate.w[c].wake
  /\ gate' = [gate EXCEPT !.last = gate.now,
                !.w[c] = [@ EXCEPT !.pc = "idle", !.calls = @ + 1,
                                   !.ret = gate.now]]
  /\ gframe

\* Time passes.
GateTick ==
  /\ gate.pc = "on"
  /\ \E d \in Ticks :
       /\ gate.now + d <= StartClock + Horizon
       /\ gate' = [gate EXCEPT !.now = @ + d]
  /\ gframe

NextGate ==
  \/ \E c \in Callers : GateCall(c)
  \/ \E c \in Callers : GateWake(c)
  \/ GateTick

SpecGate == InitGate /\ [][NextGate]_vars

\* ------------------------------------------------------ RateLimiter.backoff
\* One call of backoff(attempt) on the handler's RateLimiter(1500, 8000,
\* 1500), for every attempt up to MaxAttempt.  The limiter's
\* lastRequestTime is whatever earlier waitIfNeeded calls left in it.
maxDelay == 8000
MaxAttempt == 5

\* Faulty variant of ExponentialDelay: the delay is not capped.
ExponentialDelay_NoCap(attempt) == baseDelay * 2^attempt

\* Math.min(this.baseDelay * Math.pow(2, attempt), this.maxDelay)
ExponentialDelay(attempt) == Min(baseDelay * 2^attempt, maxDelay)

\* randomInt(0, Math.floor(exponentialDelay * 0.1)): every integer from 0
\* to the floor of a tenth of the delay
BackoffJitters(exponentialDelay) == 0..(exponentialDelay \div 10)

\* how late the timer of sleep may fire
Lateness == {0, 1}

InitBackoff ==
  /\ HandlerParkedIn({"polite"})
  /\ AggIdle
  /\ \E a \in 0..MaxAttempt : \E l \in {0, StartClock - minDelay} :
       gate = [pc |-> "backoff", attempt |-> a, now |-> StartClock,
               last |-> l, exponentialDelay |-> 0, jitter |-> 0,
               totalDelay |-> 0, began |-> 0]
  /\ one = Off /\ serp = Off /\ robots = Off /\ req = Off

\* backoff(attempt) up to its await: the delay is computed, the jitter drawn
\* and sleep(totalDelay) started.
BackoffCall ==
  /\ gate.pc = "backoff"
  /\ LET d == ExponentialDelay(gate.attempt)
     IN \E j \in BackoffJitters(d) :
          gate' = [gate EXCEPT !.pc = "backoff_sleep",
                     !.exponentialDelay = d, !.jitter = j,
                     !.totalDelay = d + j, !.began = gate.now]
  /\ gframe

\* The timer of sleep(totalDelay) has fired, at its time or later, and
\* backoff returns.
BackoffWake ==
  /\ gate.pc = "backoff_sleep"
  /\ \E late \in Lateness :
       gate' = [gate EXCEPT !.pc = "backoff_returned",
                  !.now = gate.began + gate.totalDelay + late]
  /\ gframe

NextBackoff == BackoffCall \/ BackoffWake

SpecBackoff == InitBackoff /\ [][NextBackoff]_vars

\* ------------------------------------------------------------ one request
\* The GET handler from the query check to the response, with the response
\* kept whole (status, content type, body as the sequence of its parts) and
\* the side effects counted.  The candidate phase is one step: what the
\* runner gave.  A thrown error is the sequence of its message's parts.
QueryParams == {"absent", "empty", "blank", "text"}

\* Faulty variant of QueryOf: no trim.
QueryOf_NoTrim(q) == IF q \in {"absent", "empty"} THEN "" ELSE q

\* (url.searchParams.get("q") ?? "").trim()
QueryOf(q) == IF q = "text" THEN q ELSE ""

\* Faulty variant of Selected: no fall back to the search-results html.
Selected_NoFallback(run) == IF run = "found" THEN "result" ELSE "none"

\* `if (first) html = first` ... `if (!html) html = serpHtml`
Selected(run) == IF run = "found" THEN "result" ELSE "serp"

\* new Response(body, { status, headers: { content-type } })
Response(status, type, body) == [status |-> status, type |-> type, body |-> body]
NoResponse == Response(0, "none", <<>>)
\* The error leaves the handler: no Response is returned.
Escapes(err) == Response(0, "exception", err)

SearchSteps == {"page_creation", "stealth", "navigation", "evaluate",
                "candidates", "no_candidates"}

\* The error the handler's try block sees when a search-page step fails:
\* gather and polite rethrow with a message of their own in front, the race
\* version has no inner try; an empty candidate list throws its own Error.
SearchError(step) ==
  IF step = "no_candidates" THEN <<"Failed to locate any non-ad search result links">>
  ELSE IF version = "race" \/ step = "candidates" THEN <<step>>
  ELSE <<"Failed to ...: ", step>>

StartRequest(q) ==
  [pc |-> "query", q |-> q, launches |-> 0, pages |-> 0, waits |-> 0,
   step |-> "none", thrown |-> <<>>, run |-> "none", html |-> "none",
   sum |-> "none", closes |-> 0, browser |-> "none", resp |-> NoResponse]

qframe == UNCHANGED <<hvars, avars, one, serp, robots, gate>>

InitRequest ==
  /\ HandlerParkedIn(Versions)
  /\ AggIdle
  /\ \E q \in QueryParams : req = StartRequest(q)
  /\ one = Off /\ serp = Off /\ robots = Off /\ gate = Off

\* `if (!query) return new Response(..., { status: 400 })`, else
\* puppeteer.launch is invoked.
ReqQuery ==
  /\ req.pc = "query"
  /\ req' = IF QueryOf(req.q) = ""
              THEN [req EXCEPT !.pc = "done",
                      !.resp = Response(400, "text/plain", <<"Missing \"q\" search param. ...">>)]
              ELSE [req EXCEPT !.pc = "launch", !.launches = @ + 1]
  /\ qframe

\* `await puppeteer.launch(...)` settled.  gather, polite: the catch around
\* it returns the 500 response; race: nothing catches it.  On success
\* browser.newPage() is invoked.
ReqLaunch ==
  /\ req.pc = "launch"
  /\ \E ok \in BOOLEAN :
       req' = IF ok THEN [req EXCEPT !.pc = "search", !.pages = @ + 1]
              ELSE [req EXCEPT !.pc = "done", !.step = "launch",
                      !.thrown = <<"launch">>,
                      !.resp = IF version = "race" THEN Escapes(<<"launch">>)
                               ELSE Response(500, "text/plain",
                                             <<"Failed to launch browser: ", "launch">>)]
  /\ qframe

\* The search-page phase up to the candidate list: one of its steps throws
\* or the runner is called.  The polite version waits at the rate limiter
\* before the navigation.
ReqSearch ==
  /\ req.pc = "search"
  /\ LET w == IF version = "polite" THEN 1 ELSE 0
     IN \/ \E s \in SearchSteps :
             req' = [req EXCEPT !.pc = "catch", !.step = s,
                       !.thrown = SearchError(s),
                       !.waits = IF s \in {"page_creation", "stealth"}
                                   THEN @ ELSE @ + w]
        \/ req' = [req EXCEPT !.pc = "run", !.waits = @ + w]
  /\ qframe

\* The runner call settled: a result, none, or (race version, a
\* candidate's page creation failed) a rejection.
ReqRun ==
  /\ req.pc = "run"
  /\ \/ \E r \in {"found", "nothing"} :
          req' = [req EXCEPT !.pc = "summarize", !.run = r, !.html = Selected(r)]
     \/ /\ version = "race"
        /\ req' = [req EXCEPT !.pc = "catch", !.step = "candidate_page",
                     !.thrown = <<"candidate_page">>, !.run = "rejected"]
  /\ qframe

\* The summarisation block: a non-empty summary is returned as text/plain
\* with sourcesBlock, else (empty text, or an error caught by the block's
\* own catch) the html is returned.
ReqSummarize ==
  /\ req.pc = "summarize"
  /\ \E o \in {"text", "empty", "throws"} :
       req' = [req EXCEPT !.pc = "finally", !.sum = o,
                 !.resp = IF o = "text"
                            THEN Response(200, "text/plain",
                                   IF req.run = "found" THEN <<"summary", "sources">>
                                   ELSE <<"summary">>)
                            ELSE Response(200, "text/html", <<req.html>>)]
  /\ qframe

\* catch (e): "Search failed: " + message, status 500.  The race version
\* has no catch block.
ReqCatch ==
  /\ req.pc = "catch"
  /\ req' = [req EXCEPT !.pc = "finally",
               !.resp = IF version = "race" THEN Escapes(req.thrown)
                        ELSE Response(500, "text/plain",
                                      <<"Search failed: ">> \o req.thrown)]
  /\ qframe

\* finally: browser.close() under withTimeout, errors swallowed.
ReqFinally ==
  /\ req.pc = "finally"
  /\ \E o \in {"closed", "close_failed"} :
       req' = [req EXCEPT !.pc = "done", !.closes = @ + 1, !.browser = o]
  /\ qframe

NextRequest ==
  \/ ReqQuery
  \/ ReqLaunch
  \/ ReqSearch
  \/ ReqRun
  \/ ReqSummarize
  \/ ReqCatch
  \/ ReqFinally

SpecRequest == InitRequest /\ [][NextRequest]_vars

\* ------------------------------------------------- ranking (gather version)
\* rankedCandidates: the deduplicated candidates, scored by scoreDomain,
\* sorted and cut to the first topK.  A candidate is its position in
\* preferredCandidates (id) and what scoreDomain reads of its url.
topK == 8
MaxCands == 9

\* Urls by what scoreDomain tests: a known quality host over https, short;
\* a social-media host over http, long; a url new URL rejects.
RankUrls ==
  {[valid |-> TRUE, quality |-> TRUE, social |-> FALSE, https |-> TRUE, short |-> TRUE],
   [valid |-> TRUE, quality |-> FALSE, social |-> TRUE, https |-> FALSE, short |-> FALSE],
   [valid |-> FALSE, quality |-> FALSE, social |-> FALSE, https |-> TRUE, short |-> TRUE]}

\* scoreDomain(url)
ScoreDomain(u) ==
  IF ~u.valid THEN -1
  ELSE (IF u.quality THEN 3 ELSE 0) + (IF u.social THEN -5 ELSE 0)
       + (IF u.https THEN 1 ELSE 0) + (IF u.short THEN 1 ELSE 0)

\* Faulty variant of Outranks: equal scores count as greater.
Outranks_Ties(x, y) == x.score >= y.score

\* (a, b) => b.score - a.score is positive: b is sorted before a.
Outranks(x, y) == x.score > y.score

\* Array.prototype.sort is stable: x goes before the first element it
\* outranks, behind every element of equal score already placed.
RECURSIVE Insert(_, _)
Insert(acc, x) ==
  IF acc = <<>> THEN <<x>>
  ELSE IF Outranks(x, acc[1]) THEN <<x>> \o acc
  ELSE <<acc[1]>> \o Insert(Tail(acc), x)

RECURSIVE SortDesc(_, _)
SortDesc(q, acc) ==
  IF q = <<>> THEN acc ELSE SortDesc(Tail(q), Insert(acc, q[1]))

\* .map(url => ({ url, score })).sort(...).slice(0, 8).map(x => x.url)
RankedCandidates(urls) ==
  LET scored == [i \in 1..Len(urls) |-> [url |-> i, score |-> ScoreDomain(urls[i])]]
      sorted == SortDesc(scored, <<>>)
  IN [k \in 1..Min(topK, Len(sorted)) |-> sorted[k].url]

kframe == UNCHANGED <<hvars, avars, one, robots, gate, req>>

\* The gather handler holds a non-empty preferredCandidates.
InitRank ==
  /\ HandlerParkedIn({"gather"})
  /\ AggIdle
  /\ \E n \in 1..MaxCands : \E urls \in [1..n -> RankUrls] :
       serp = [pc |-> "preferred", urls |-> urls, ranked |-> <<>>, visited |-> {}]
  /\ one = Off /\ robots = Off /\ gate = Off /\ req = Off

\* rankedCandidates is computed.
Rank ==
  /\ serp.pc = "preferred"
  /\ serp' = [serp EXCEPT !.pc = "ranked", !.ranked = RankedCandidates(serp.urls)]
  /\ kframe

\* fetchAllWithConcurrency(candidateUrls, worker, 4) has returned: the
\* worker was called once on each element of candidateUrls.
RankRun ==
  /\ serp.pc = "ranked"
  /\ serp' = [serp EXCEPT !.pc = "visited",
                !.visited = {serp.ranked[k] : k \in 1..Len(serp.ranked)}]
  /\ kframe

NextRank ==
  \/ Rank
  \/ RankRun

SpecRank == InitRank /\ [][NextRank]_vars

\* ================================================================ claims
Cands == 1..N

\* The candidates whose attempt yielded a non-null value.
Succ == {c \in Cands : att[c].ret = "ok"}
Failed == {c \in Cands : att[c].pc = "settled" /\ att[c].ret \in {"null", "throw"}}
EntryOf(c) == [url |-> c, html |-> Html(c)]
UrlSet(q) == {q[i].url : i \in 1..Len(q)}

\* C1. Race mode: when the runner has returned and exactly one attempt
\* yielded a non-null value (every other attempt yielded null or threw), the
\* runner's result is that attempt's html and the accepted-source list is
\* exactly that candidate's entry.
C1_RaceSingleSuccess ==
  (IsRace /\ runner = "returned" /\ Cardinality(Succ) = 1)
    => \E c \in Succ : result = Html(c) /\ html = Html(c)
                       /\ successes = <<EntryOf(c)>>

\* The single success was the last candidate, reached by a pool of two
\* after the others failed.
C1_Witness ==
  /\ IsRace /\ runner = "returned" /\ N = MaxN /\ conc = 2
  /\ Succ = {N} /\ Failed = Cands \ {N}

\* The candidates whose worker call has settled.
Settled == {c \in Cands : att[c].pc = "settled"}

\* C2. Gather mode: at every moment the runner's list has exactly one entry
\* per settled attempt that yielded a non-null value, none lost, none twice
\* and nothing for a failed attempt; when the runner has returned every
\* candidate was attempted, so the list has exactly K entries.
C2_GatherExactlyK ==
  version = "gather"
    => /\ Len(results) = Cardinality(Succ \cap Settled)
       /\ UrlSet(results) = Succ \cap Settled
       /\ \A i \in 1..Len(results) : results[i] = EntryOf(results[i].url)
       /\ runner = "returned" => Settled = Cands /\ Succ \cup Failed = Cands

\* Two of three candidates succeeded under a pool of two.
C2_Witness ==
  /\ version = "gather" /\ runner = "returned" /\ N = MaxN /\ conc = 2
  /\ Cardinality(Succ) = 2 /\ Cardinality(Failed) = N - 2

\* C3. Race mode: once resolved is true the cursor does not move and no
\* attempt is started.
C3_NoClaimAfterResolved ==
  [][(IsRace /\ resolved) =>
       /\ index' = index
       /\ \A c \in Cands : att[c].pc = "idle" => att'[c].pc = "idle"]_vars

\* A result was recorded while a candidate was unclaimed, and the runner
\* returned with that candidate never started.
C3_Witness ==
  /\ IsRace /\ resolved /\ runner = "returned" /\ index < N
  /\ \E c \in Cands : att[c].pc = "idle"
  /\ Cardinality(Failed) >= 1

FailsNow(c) ==
  /\ att[c].pc \notin {"idle", "settled"}
  /\ att'[c].pc = "settled"
  /\ att'[c].ret \in {"null", "throw"}

\* In that step the slot of c claims the next unclaimed candidate.
ClaimsNext(c) ==
  /\ index' = index + 1
  /\ att'[index + 1].pc \notin {"idle", "settled"}
  /\ slot'[SlotFor(c)] = [st |-> "busy", cur |-> index + 1]

NeverRejects == runner # "rejected" /\ \A s \in 1..Len(slot) : slot[s].st # "rejected"

\* C5 as stated. Both runners: no runNext chain and no runner call rejects,
\* and whenever an attempt fails while a candidate is unclaimed, its slot
\* claims the next unclaimed candidate.
C5_FailureAlwaysClaimsNext ==
  /\ []NeverRejects
  /\ [][\A c \in Cands : (FailsNow(c) /\ index < N) => ClaimsNext(c)]_vars

\* C5 amended. Both runners: no runNext chain and no runner call rejects,
\* and whenever an attempt fails while a candidate is unclaimed, its slot
\* claims the next unclaimed candidate, unless (race mode) a result has been
\* recorded already: then the slot stops.
C5_FailureClaimsNextUnlessResolved ==
  /\ []NeverRejects
  /\ [][\A c \in Cands : (FailsNow(c) /\ index < N) =>
          IF IsRace /\ resolved
            THEN index' = index /\ slot'[SlotFor(c)].st = "done"
            ELSE ClaimsNext(c)]_vars

\* A worker call threw, and a slot went on beyond the initial pool.
C5_Witness ==
  /\ runner = "running" /\ index > Len(slot) /\ index <= N
  /\ \E c \in Cands : att[c].pc = "settled" /\ att[c].ret = "throw"

ExitPaths == {"stealth_setup_failed", "navigation_failed", "http_error",
              "content_read_failed", "parked_or_ad", "cloudflare_challenge",
              "success"}

\* The page of attempt c and the number of close calls on it, at each
\* position of the worker.
C6_PageFacts(c) ==
  LET a == att[c]
  IN /\ a.closes <= 1
     /\ a.page = "none" => a.closes = 0
     /\ a.page = "open" => a.closes = 0 /\ a.pc \notin {"idle", "closing", "settled"}
     /\ a.pc = "closing" => a.page = "closing" /\ a.closes = 1 /\ a.exit \in ExitPaths
     /\ a.page = "closing" => a.pc = "closing"
     /\ a.pc = "settled" => a.page \in {"none", "closed", "close_failed"}
     /\ a.page \in {"closed", "close_failed"} => a.closes = 1 /\ a.pc = "settled"

\* The step in which the worker call of an attempt with a page settles.
C6_CloseStep(c) ==
  (att[c].pc # "settled" /\ att'[c].pc = "settled" /\ att[c].page # "none")
    => /\ att[c].pc = "closing"
       /\ att'[c].ret = att[c].ret
       /\ att'[c].closes = 1
       /\ (IsRace /\ ~resolved /\ att[c].ret = "ok")
            => resolved' /\ result' = Html(c)
       /\ (version = "gather" /\ att[c].ret = "ok")
            => results' = Append(results, EntryOf(c))
       /\ att[c].ret = "null" => result' = result /\ results' = results

\* C6. An attempt that acquired a page: close is not called while the body
\* of the try runs, is called once on entry of the finally block, on each of
\* the exit paths, and the call settles before the worker call does; how the
\* close ends changes neither the value the worker returns nor what the
\* runner does with it.
C6_PageClosedOnce ==
  /\ [](\A c \in Cands : C6_PageFacts(c))
  /\ [][\A c \in Cands : C6_CloseStep(c)]_vars

\* A successful attempt whose close failed or timed out still won the race.
C6_Witness ==
  \E c \in Cands :
    /\ att[c].pc = "settled" /\ att[c].page = "close_failed"
    /\ att[c].closes = 1 /\ att[c].ret = "ok" /\ result = Html(c)

Launched == browser # "none"
BrowserCloseCalled == browser \in {"closing", "closed", "close_failed"}

\* browser.close is invoked at most once, once the handler is done after a
\* launch, and only when no worker call is in flight.
C7_Common ==
  /\ browserCloses <= 1
  /\ BrowserCloseCalled = (browserCloses = 1)
  /\ (hpc = "done" /\ Launched) => browserCloses = 1
  /\ BrowserCloseCalled => \A c \in Cands : att[c].pc \in {"idle", "settled"}

\* C7 as stated. After a successful launch browser.close is invoked exactly
\* once on every exit path, only after every worker call has settled, and
\* then no candidate page is open.
C7_NoPageOpenAtBrowserClose ==
  /\ C7_Common
  /\ BrowserCloseCalled => \A c \in Cands : att[c].page \in {"none", "closed"}

\* C7 amended. After a successful launch browser.close is invoked exactly
\* once on every exit path, only after every worker call has settled; by
\* then close has been invoked on every candidate page and the wait for it
\* is over (a page whose close failed or timed out may still be open).
C7_BrowserClosedOnceAfterWorkers ==
  /\ C7_Common
  /\ BrowserCloseCalled =>
       \A c \in Cands : /\ att[c].page \in {"none", "closed", "close_failed"}
                        /\ att[c].page # "none" => att[c].closes = 1

\* Race mode: the browser is being closed after a race that left stragglers.
C7_Witness ==
  /\ IsRace /\ browser = "closing" /\ browserCloses = 1
  /\ resolved /\ Len(successes) >= 2

IsPrefix(p, q) == Len(p) <= Len(q) /\ \A i \in 1..Len(p) : p[i] = q[i]

\* C8. Aggregation: after every step of the concatenation loop (and from
\* then on) the combined text is at most maxTotal characters long, whatever
\* the accepted sources are.
C8_CombinedWithinBudget == CombinedLen <= maxTotal

\* A source whose text alone exceeds the total budget was cut to the
\* per-source limit and appended, and a later block was refused.
C8_Witness ==
  /\ apc = "done" /\ Len(usedUrls) >= 1 /\ Len(usedUrls) < Len(sourceTexts)
  /\ asuccesses[usedUrls[1]].rawLen > maxTotal

\* usedUrls and combined are built from the first entries of sourceTexts,
\* and the loop ends at the first entry that does not fit.
C9_PrefixFacts ==
  /\ Len(usedUrls) <= Len(sourceTexts)
  /\ usedUrls = Urls(SubSeq(sourceTexts, 1, Len(usedUrls)))
  /\ Len(combined) = Len(usedUrls)
  /\ \A i \in 1..Len(combined) :
       combined[i] = [url |-> sourceTexts[i].url, len |-> ChunkLen(sourceTexts[i])]
  /\ apc \in {"await", "done"} =>
       \/ Len(usedUrls) = Len(sourceTexts)
       \/ CombinedLen + ChunkLen(sourceTexts[Len(usedUrls) + 1]) > maxTotal

\* C9. Aggregation is greedy prefix truncation: the chunks appended are, in
\* order, those of the first entries of sourceTexts and usedUrls their urls;
\* combined and usedUrls only ever grow at the end; and when the loop is
\* over either every entry was appended or the first one left out did not
\* fit (no entry after it is appended, whether it would fit or not).
C9_GreedyPrefix ==
  /\ []C9_PrefixFacts
  /\ [][IsPrefix(combined, combined') /\ IsPrefix(usedUrls, usedUrls')]_vars

\* The loop stopped at a block that did not fit although a later block
\* alone would have fitted.
C9_Witness ==
  /\ apc = "done" /\ Len(usedUrls) >= 1
  /\ \E j \in (Len(usedUrls) + 2)..Len(sourceTexts) :
       CombinedLen + ChunkLen(sourceTexts[j]) <= maxTotal

\* C10. Provenance end to end: every url listed under the plain-text answer
\* is the url of a block that is part of the combined input, and for every
\* non-empty list of accepted sources the urls listed are usedUrls.
C10_ListedAreUsed ==
  aresp = "200text" =>
    /\ \A i \in 1..Len(listed) : \E j \in 1..Len(combined) : combined[j].url = listed[i]
    /\ Len(asuccesses) > 0 => listed = usedUrls

\* The one accepted source has no text: nothing was sent to summarisation
\* under its url, and the answer lists it.
C10_Witness ==
  /\ aresp = "200text" /\ Len(asuccesses) = 1 /\ asuccesses[1].rawLen = 0
  /\ sourceTexts = <<>> /\ combined = <<>> /\ usedUrls = <<>>
  /\ listed = <<asuccesses[1].url>>

\* C11. Admission gate: a fetched html shorter than shortLimit is rejected
\* as parked_or_ad whatever else it holds (a challenge signature too), the
\* attempt yields null, extraction does not run and nothing is pushed.
C11_ShortIsParkedOrAd ==
  (one.pc # "off" /\ one.content = "ok" /\ one.html.len < shortLimit)
    => /\ one.exit = "parked_or_ad"
       /\ one.ret = "null"
       /\ ~one.ran /\ one.pushed = <<>>

\* A page of 399 characters holding a challenge signature was rejected as
\* parked_or_ad.
C11_Witness ==
  /\ one.pc = "settled" /\ one.content = "ok"
  /\ one.html.len = shortLimit - 1 /\ one.html.sigEnd > 0 /\ ~one.html.adsig
  /\ one.exit = "parked_or_ad" /\ one.ret = "null"

\* The html was read, is long enough and has no ad-placeholder signature.
C12_Pre == one.pc # "off" /\ one.content = "ok"
           /\ one.html.len >= shortLimit /\ ~one.html.adsig

C12_Rejected == /\ one.exit = "cloudflare_challenge" /\ one.ret = "null"
                /\ ~one.ran /\ one.pushed = <<>>

\* C12 as stated. Admission gate: an html of at least shortLimit characters
\* without the ad-placeholder signature that holds a challenge signature
\* anywhere is rejected as a challenge: null, no extraction, no push.
C12_AnySignatureRejected ==
  (C12_Pre /\ one.html.sigEnd > 0) => C12_Rejected

\* C12 amended. The same for a challenge signature that lies within the
\* first challengeWindow characters of the html; a page whose first
\* signature ends beyond them is admitted.
C12_SignatureInWindowRejected ==
  /\ (C12_Pre /\ one.html.sigEnd > 0 /\ one.html.sigEnd <= challengeWindow)
       => C12_Rejected
  /\ (C12_Pre /\ one.html.sigEnd > challengeWindow)
       => one.exit = "success" /\ one.ran /\ Len(one.pushed) = 1

\* A long page whose signature ends exactly at the end of the window was
\* rejected as a challenge.
C12_Witness ==
  /\ one.pc = "settled" /\ one.content = "ok" /\ ~one.html.adsig
  /\ one.html.len > challengeWindow /\ one.html.sigEnd = challengeWindow
  /\ one.exit = "cloudflare_challenge" /\ one.ret = "null"

\* No anchor of the list is usable: each is ad-flagged or does not normalize
\* to an http(s) URL.
NoUsableAnchor(raw) ==
  \A i \in 1..Len(raw) :
    \/ raw[i].isAd
    \/ LET n == NormalizeDuckHref(raw[i].href) IN ~(n.ok /\ IsHttp(n.val))

\* C13 as stated (for the versions whose handler has a catch block). When no
\* anchor is usable the candidate list is empty and the request fails with
\* the no-candidates error, answered as 500; the runner is never started.
C13_NoCandidatesError ==
  (version # "race" /\ serp.pc \in {"catch", "answered", "ready", "running"}
     /\ NoUsableAnchor(serp.raw))
    => /\ serp.pc \in {"catch", "answered"}
       /\ serp.preferred = <<>> /\ ~serp.started
       /\ serp.error = "no_candidates"
       /\ serp.pc = "answered" => serp.resp = "500"

\* The only anchor is a redirector-like href the URL parser rejects: the
\* request was answered 500 with the parser's error.
C13_Witness ==
  /\ version = "polite" /\ serp.pc = "answered" /\ Len(serp.raw) = 1
  /\ ~serp.raw[1].isAd /\ serp.raw[1].href.form = "redirect_bad"
  /\ serp.error = "invalid_url" /\ serp.resp = "500"

\* C14 as stated. Redirector round trip: for every absolute http URL u,
\* normalizeDuckHref of a redirector link whose uddg parameter is
\* encodeURIComponent(u) is u.
C14_RoundTrip ==
  serp.pc = "normalized" =>
    \A u \in Urls3 :
      (serp.href.form \in RedirectForms /\ serp.href.payload = EncodeURIComponent(u))
        => serp.out = [ok |-> TRUE, val |-> u]

\* The destination http://h/%25 came back as http://h/% : decoded twice.
C14_Witness ==
  /\ serp.pc = "normalized" /\ serp.href.form = "redirect"
  /\ serp.href.payload = EncodeURIComponent(Url(<<"%", "2", "5">>))
  /\ serp.out = [ok |-> TRUE, val |-> Url(<<"%">>)]

\* C15. checkRobotsTxt never throws, and when the url cannot be parsed,
\* the fetch rejects, the status is not 2xx or reading the text fails, it
\* returns true and the worker goes on to acquire a page.
C15_RobotsFailsOpen ==
  robots.pc # "off" =>
    /\ robots.ret # "throw" /\ robots.worker # "throw"
    /\ (robots.failure # "none") => robots.ret = "allow"
    /\ (robots.failure # "none" /\ robots.pc = "returned")
         => robots.worker = "newPage"

\* The fetch of robots.txt rejected and the worker went on to newPage.
C15_Witness ==
  /\ robots.pc = "returned" /\ robots.failure = "fetch_rejected"
  /\ robots.ret = "allow" /\ robots.worker = "newPage"

Passed(c) == gate.w[c].pc = "idle" /\ gate.w[c].calls > 0

\* C16. A call of waitIfNeeded that overlaps no other call returns no
\* earlier than max(minDelay, baseDelay + jitter) ms after the
\* lastRequestTime it found, and lastRequestTime is always the time of the
\* latest return.
C16_SpacedWhenNotOverlapping ==
  gate.pc = "on" =>
    /\ \A c \in Callers :
         (Passed(c) /\ ~gate.w[c].over) =>
           gate.w[c].ret >= gate.w[c].read
                              + Max(minDelay, baseDelay + gate.w[c].jitter)
    /\ gate.last = Max(gate.w[1].ret, gate.w[2].ret)
    /\ \A c \in Callers : gate.w[c].ret <= gate.now

\* A caller found a lastRequestTime written by an earlier call, slept, and
\* returned having overlapped no other call.
C16_Witness ==
  /\ gate.pc = "on"
  /\ \E c \in Callers :
       /\ Passed(c) /\ ~gate.w[c].over
       /\ gate.w[c].read > 0
       /\ gate.w[c].wake > gate.w[c].read
       /\ gate.w[c].ret = gate.last

\* Two callers returned less than minDelay apart.
Close == Passed(1) /\ Passed(2)
         /\ gate.w[1].ret - gate.w[2].ret < minDelay
         /\ gate.w[2].ret - gate.w[1].ret < minDelay

\* C17. The limiter is not a lock: two callers return less than minDelay
\* apart only when their calls overlapped, each having found a
\* lastRequestTime older than the other's return, and such a run exists
\* (the witness).
C17_CloseOnlyWhenOverlapping ==
  (gate.pc = "on" /\ Close) =>
    /\ gate.w[1].over /\ gate.w[2].over
    /\ gate.w[1].read < gate.w[2].ret
    /\ gate.w[2].read < gate.w[1].ret

\* Both callers read the same lastRequestTime, both slept, and both
\* returned, less than minDelay apart.
C17_Witness ==
  /\ gate.pc = "on" /\ Close
  /\ gate.w[1].read = gate.w[2].read /\ gate.w[1].read > 0
  /\ gate.w[1].wake > 0 /\ gate.w[2].wake > 0

\* C18. In the polite version a navigation response with status >= 400
\* fails the attempt: no content is read, nothing is admitted or extracted,
\* the candidate is navigated once, the worker yields null, and a 429 has
\* waited the Retry-After delay or backoff(1) before it fails.
C18_ErrorStatusFails ==
  (one.pc # "off" /\ version = "polite" /\ one.status >= 400) =>
    /\ one.reads = 0 /\ one.content = "none" /\ ~one.ran
    /\ one.navs = 1
    /\ one.ret \in {"none", "null"}
    /\ one.pc = "settled" => one.ret = "null"
    /\ (one.status = 429 /\ one.pc \in {"closing", "settled"})
         => one.waited \in {"retry_after", "backoff"}

\* A 404 response whose page was read, admitted and returned.
C18_Witness ==
  /\ one.pc = "settled" /\ version = "polite"
  /\ one.status = 404
  /\ one.reads >= 1 /\ one.ran
  /\ one.ret \in {"wrapped", "raw"}

\* C19. Within one attempt the content is read at most maxAttempts times;
\* every read after the first follows a read that failed with 'Execution
\* context was destroyed'; any other read error fails the attempt at once;
\* after maxAttempts transient failures the attempt fails with the last
\* error; the first successful read ends the loop.
C19_ReadRetry ==
  one.pc # "off" =>
    /\ one.reads <= maxAttempts
    /\ one.reads <= one.destroyed + 1
    /\ one.destroyed <= one.reads
    /\ one.pc = "readSleep" => one.lastErr = "destroyed"
    /\ one.lastErr \in {"timeout", "other"} =>
         /\ one.pc \in {"closing", "settled"}
         /\ one.ret = "null" /\ one.exit = "content_read_failed"
         /\ one.content = "none" /\ one.reads = one.destroyed + 1
    /\ (one.destroyed = maxAttempts /\ one.pc # "readSleep") =>
         /\ one.ret = "null" /\ one.exit = "content_read_failed"
         /\ one.lastErr = "destroyed" /\ one.content = "none"
    /\ one.content = "ok" =>
         /\ one.pc \in {"closing", "settled"}
         /\ one.reads = one.destroyed + 1

\* Three reads, each failed with the transient error, and the attempt
\* failed.
C19_Witness ==
  /\ one.pc = "settled" /\ one.reads = maxAttempts
  /\ one.destroyed = maxAttempts
  /\ one.exit = "content_read_failed" /\ one.ret = "null"

\* C20. An admitted page always yields a result: the worker returns
\* non-null and pushes exactly one entry; it is the wrapped article iff the
\* extraction gave an article with title and content, and the raw html when
\* the extraction gave less or threw.
C20_AdmittedPageSucceeds ==
  one.pc # "off" =>
    /\ (one.content = "ok" /\ Verdict(one.html) = "admit") => one.ran
    /\ one.ran =>
         /\ one.ret \in {"wrapped", "raw"}
         /\ one.exit = "success"
         /\ one.pushed = <<one.ret>>
         /\ (one.ret = "wrapped") <=> (one.x = "article")
    /\ ~one.ran => one.pushed = <<>>

\* The extraction threw on an admitted page and the raw html was returned.
C20_Witness ==
  /\ one.pc = "settled" /\ one.ran
  /\ one.x = "throws" /\ one.ret = "raw" /\ one.pushed = <<"raw">>

RequestFailed == resp \in {"500", "exception"}

C22_SummaryFallsBackToHtml ==
  (req.pc # "off" /\ req.sum # "none") =>
    /\ req.pc \in {"finally", "done"}
    /\ req.resp.status = 200
    /\ req.sum \in {"empty", "throws"} =>
         /\ req.resp.type = "text/html"
         /\ req.resp.body = <<IF req.run = "found" THEN "result" ELSE "serp">>
    /\ req.sum = "text" =>
         /\ req.resp.type = "text/plain"
         /\ req.resp.body[1] = "summary"
         /\ (req.run = "found") <=> (req.resp.body = <<"summary", "sources">>)

\* No candidate succeeded, the summarisation threw, and the search-results
\* html was returned.
C22_Witness ==
  /\ req.pc = "done" /\ req.sum = "throws" /\ req.run = "nothing"
  /\ req.resp = Response(200, "text/html", <<"serp">>)

\* C23. A request whose q is absent, empty or only whitespace is answered
\* 400 text/plain before any side effect: no browser launch, no rate-limiter
\* wait, no page.
C23_MissingQueryNoSideEffect ==
  (req.pc \notin {"off", "query"} /\ req.q \in {"absent", "empty", "blank"}) =>
    /\ req.pc = "done"
    /\ req.resp.status = 400 /\ req.resp.type = "text/plain"
    /\ req.launches = 0 /\ req.pages = 0 /\ req.waits = 0 /\ req.closes = 0

\* A whitespace-only q was answered 400.
C23_Witness ==
  /\ req.pc = "done" /\ req.q = "blank" /\ req.resp.status = 400
  /\ req.launches = 0

\* C24. Every failing request ends in a returned text/plain response with
\* a 4xx/5xx status whose body is a fixed message followed by the cause's
\* message; no exception leaves the handler.
C24_FailureIsPlainText ==
  (req.pc = "done" /\ req.step # "none") =>
    /\ req.resp.type = "text/plain"
    /\ req.resp.status \in {400, 500}
    /\ Len(req.resp.body) >= 2
    /\ req.resp.body[1] \in {"Failed to launch browser: ", "Search failed: "}
    /\ req.resp.body[Len(req.resp.body)] = req.thrown[Len(req.thrown)]

\* Race version: the browser launch failed and the error left the handler.
C24_Witness ==
  /\ req.pc = "done" /\ version = "race" /\ req.step = "launch"
  /\ req.resp.type = "exception"

\* C25. Gather mode: the accepted-source list is in candidate-rank order:
\* of two successful candidates the one ranked earlier comes earlier in the
\* runner's list and in the handler's successes.
C25_GatherRankOrder ==
  version = "gather" =>
    /\ \A i, j \in 1..Len(results) : i < j => results[i].url < results[j].url
    /\ runner = "returned" =>
         \A i, j \in 1..Len(successes) :
           i < j => successes[i].url < successes[j].url

\* The gather runner returned a list in which a later-ranked candidate
\* comes first, and the handler took it over.
C25_Witness ==
  /\ version = "gather" /\ runner = "returned"
  /\ Len(successes) >= 2
  /\ successes[1].url > successes[2].url
  /\ html = successes[1].html

\* C26. Whichever suspension point of a candidate attempt never responds
\* (robots.txt fetch, navigation, content read, page close), the attempt
\* still ends: the worker call settles.
C26_AttemptEnds == <>(one.pc = "settled")

\* One step of the polite worker call on candidate c keeps the order of
\* the worker's stages.
C27_Step(c) ==
  LET a == att[c]
      b == att'[c]
  IN (version = "polite" /\ a.pc # b.pc) =>
       /\ b.pc = "newPage" => a.pc = "robots"
       /\ (a.pc = "robots" /\ b.pc # "newPage") =>
            b.pc = "settled" /\ b.ret = "null" /\ b.page = "none"
       /\ b.pc = "stealth" => a.pc = "newPage" /\ b.page = "open"
       /\ b.pc = "gate" => a.pc = "stealth" /\ a.page = "open"
       /\ b.pc = "goto" => a.pc = "gate" /\ a.page = "open"
       /\ b.pc = "read" => a.pc \in {"settle", "readSleep"}
       /\ b.exit \in {"parked_or_ad", "cloudflare_challenge", "success"}
            => a.pc = "read"
       /\ b.kind # "none" => b.exit = "success" /\ b.ret = "ok"

\* C27. Within one attempt of the polite worker a page is acquired only
\* after the robots check returned allowed, the rate-limiter gate is entered
\* only after the page was acquired and configured, the navigation starts
\* only after the gate, admission is evaluated only after a successful
\* content read and extraction only after admission.
C27_AttemptOrder == [][\A c \in Cands : C27_Step(c)]_vars

\* A polite attempt that went through every stage and returned a page.
C27_Witness ==
  /\ version = "polite"
  /\ \E c \in Cands : att[c].pc = "closing" /\ att[c].exit = "success"
                        /\ att[c].kind = "wrapped"

\* Anchor i of rawResults gives a candidate: the url NormAt(i).
NormAt(i) == NormalizeDuckHref(serp.raw[i].href).val
GivesCandidate(i) ==
  /\ ~serp.raw[i].isAd
  /\ IsHttp(NormAt(i)) /\ ~IsAdNetwork(NormAt(i))
FirstAt(u) ==
  CHOOSE i \in 1..Len(serp.raw) :
    /\ GivesCandidate(i) /\ NormAt(i) = u
    /\ \A j \in 1..(i - 1) : ~(GivesCandidate(j) /\ NormAt(j) = u)

\* C28. The candidate list holds exactly the normalized hrefs of the
\* anchors that are not ad-flagged, match ^https?:// and are not ad-network
\* URLs, each once, in the order of first occurrence in rawResults; an
\* ad-flagged anchor contributes nothing.
C28_CandidateList ==
  serp.pc \in {"ready", "running"} =>
    LET L == serp.preferred
    IN /\ {L[k] : k \in 1..Len(L)}
            = {NormAt(i) : i \in {j \in 1..Len(serp.raw) : GivesCandidate(j)}}
       /\ \A k, l \in 1..Len(L) : k # l => L[k] # L[l]
       /\ \A k, l \in 1..Len(L) : k < l => FirstAt(L[k]) < FirstAt(L[l])

\* Three anchors, the first ad-flagged, the other two with different hrefs
\* and the same normalized url: one candidate.
C28_Witness ==
  /\ serp.pc = "running" /\ Len(serp.raw) = 3
  /\ serp.raw[1].isAd /\ IsHttp(NormAt(1)) /\ NormAt(1) # NormAt(2)
  /\ ~serp.raw[2].isAd /\ ~serp.raw[3].isAd
  /\ serp.raw[2].href # serp.raw[3].href /\ NormAt(2) = NormAt(3)
  /\ serp.preferred = <<NormAt(2)>>

ScoreAt(i) == ScoreDomain(serp.urls[i])

\* C29. The visited list is the first min(topK, N) candidates in the order
\* of non-increasing score, candidates of equal score in discovery order,
\* and no candidate outside that prefix is visited.
C29_RankedTopK ==
  serp.pc \in {"ranked", "visited"} =>
    LET R == serp.ranked
        n == Len(serp.urls)
        In == {R[k] : k \in 1..Len(R)}
    IN /\ Len(R) = Min(topK, n)
       /\ In \subseteq 1..n
       /\ \A k, l \in 1..Len(R) : k < l =>
            \/ ScoreAt(R[k]) > ScoreAt(R[l])
            \/ ScoreAt(R[k]) = ScoreAt(R[l]) /\ R[k] < R[l]
       /\ \A i \in In : \A j \in (1..n) \ In :
            \/ ScoreAt(i) > ScoreAt(j)
            \/ ScoreAt(i) = ScoreAt(j) /\ i < j
       /\ serp.pc = "visited" => serp.visited = In

\* More candidates than topK: the one left out is not the last one found;
\* an earlier one of the same score and a later one of a higher score are
\* visited.
C29_Witness ==
  /\ serp.pc = "visited" /\ Len(serp.urls) = MaxCands
  /\ Cardinality(serp.visited) = topK
  /\ \E j \in (1..MaxCands) \ serp.visited :
       /\ \E i \in serp.visited : i < j /\ ScoreAt(i) = ScoreAt(j)
       /\ \E i \in serp.visited : i > j /\ ScoreAt(i) > ScoreAt(j)

\* The latest User-agent line before line i of the text t opens the group
\* line i is in; the group is for the requesting agent when that line
\* names "*" or the requesting agent in any case.
InGroupForMe(t, i) ==
  \E j \in 1..(i - 1) :
    /\ t[j].field = "user-agent"
    /\ \A k \in (j + 1)..(i - 1) : t[k].field # "user-agent"
    /\ \/ t[j].value = <<"*">>
       \/ ToLowerCase(t[j].value) = ToLowerCase(RequestingAgent)

\* A Disallow line of the text t, in a group for the requesting agent,
\* whose path as written in the file is "/" or a non-empty prefix of the
\* path as written in the url.
DisallowsAsWritten(t, path) ==
  \E i \in 1..Len(t) :
    /\ t[i].field = "disallow"
    /\ InGroupForMe(t, i)
    /\ t[i].value # <<>>
    /\ \/ t[i].value = <<"/">>
       \/ /\ Len(t[i].value) <= Len(path)
          /\ SubSeq(path, 1, Len(t[i].value)) = t[i].value

\* C30: once the robots.txt text was read, checkRobotsTxt returns false
\* exactly when some Disallow line in a group for "*" or for the requesting
\* agent (in any case) has a path that, as written in the file, is "/" or
\* a prefix of the path as written in the url; Allow lines, groups for
\* other agents and empty Disallow values do not change the result.
C30_RobotsDecision ==
  (robots.pc \in {"settled", "returned"} /\ robots.read) =>
    (robots.ret = "deny" <=> DisallowsAsWritten(robots.text, robots.path))

\* robots.txt disallows "/A" for every agent, the url's path starts with
\* "/A", and the worker went on to open the page.
C30_Witness ==
  /\ robots.pc = "returned" /\ robots.read
  /\ robots.path = <<"/", "A">>
  /\ robots.text = <<[field |-> "user-agent", value |-> <<"*">>],
                     [field |-> "disallow", value |-> <<"/", "A">>]>>
  /\ robots.ret = "allow" /\ robots.worker = "newPage"

\* The delay the backoff of a given attempt is to be based on.
CappedDelay(a) ==
  IF baseDelay * 2^a <= maxDelay THEN baseDelay * 2^a ELSE maxDelay

\* C31: a call of backoff(attempt) waits d + j, where d is
\* min(baseDelay * 2^attempt, maxDelay) and j an integer from 0 to
\* floor(0.1 * d): the wait is at least d and at most 1.1 * maxDelay, d does
\* not decrease with attempt, the call returns no earlier than after that
\* wait, and no step of it changes lastRequestTime.
C31_Backoff ==
  [][ gate.pc \in {"backoff", "backoff_sleep"} =>
        /\ gate'.last = gate.last
        /\ gate'.exponentialDelay = CappedDelay(gate.attempt)
        /\ gate'.jitter \in Nat /\ 10 * gate'.jitter <= gate'.exponentialDelay
        /\ gate'.totalDelay = gate'.exponentialDelay + gate'.jitter
        /\ gate'.totalDelay >= gate'.exponentialDelay
        /\ 10 * gate'.totalDelay <= 11 * maxDelay
        /\ gate.attempt > 0 =>
             CappedDelay(gate.attempt - 1) <= gate'.exponentialDelay
        /\ gate'.pc = "backoff_returned" =>
             gate'.now - gate'.began >= gate'.totalDelay ]_vars

\* backoff(3) returned after the capped delay and the largest jitter, on a
\* limiter that had served a request.
C31_Witness ==
  /\ gate.pc = "backoff_returned" /\ gate.attempt = 3
  /\ gate.exponentialDelay = maxDelay /\ gate.jitter = 800
  /\ gate.now - gate.began = 8800 /\ gate.last > 0

\* C32: when the runner has returned and no candidate attempt yielded a
\* page (each one was denied by robots.txt, threw or gave null), the request
\* does not fail: the selected html is the search-results html, no 500 is
\* answered, and when the summarisation gives no text the response is the
\* 200 html response carrying it.
C32_SerpFallback ==
  (runner = "returned" /\ Succ = {}) =>
    /\ Failed = Cands
    /\ html = SerpHtml
    /\ resp \in {"none", "200text", "200html"}
    /\ hpc \in {"summarize", "finally", "closeWait", "done"}
    /\ hpc = "done" => resp \in {"200text", "200html"}

\* Two candidates, neither gave a page, and the handler answered the
\* search-results html.
C32_Witness ==
  /\ hpc = "done" /\ runner = "returned" /\ N = 2
  /\ \A c \in Cands : att[c].pc = "settled" /\ att[c].ret \in {"null", "throw"}
  /\ html = SerpHtml /\ resp = "200html"

\* The accepted sources the build loop has gone through.
Processed ==
  IF apc = "build" THEN SubSeq(asuccesses, 1, ai - 1) ELSE asuccesses

\* The sources with a text (after trimming), in the order of the list.
RECURSIVE WithText(_)
WithText(q) ==
  IF q = <<>> THEN <<>>
  ELSE IF q[1].rawLen > 0 THEN <<q[1].url>> \o WithText(Tail(q))
  ELSE WithText(Tail(q))

\* C33: the source-text list built from a non-empty accepted-source list
\* has one entry for each source gone through whose trimmed text is not
\* empty and none for the others, in the order of the accepted-source list;
\* the text of each entry (title line included) is not empty and at most
\* perSourceLimit characters long.
C33_PerSourceCap ==
  Len(asuccesses) > 0 =>
    /\ Urls(sourceTexts) = WithText(Processed)
    /\ \A i \in 1..Len(sourceTexts) :
         sourceTexts[i].text >= 1 /\ sourceTexts[i].text <= perSourceLimit

\* Three accepted sources: the first has a title and a text over the limit,
\* the second no text, the third a short one; two entries were built.
C33_Witness ==
  /\ apc = "combine" /\ Len(asuccesses) = 3
  /\ asuccesses[1].titleLen > 0 /\ asuccesses[1].rawLen > perSourceLimit
  /\ asuccesses[2].rawLen = 0
  /\ asuccesses[3].rawLen \in 1..perSourceLimit
  /\ Urls(sourceTexts) = <<1, 3>>
  /\ sourceTexts[1].text = perSourceLimit
  /\ sourceTexts[2].text < perSourceLimit

\* The candidates handed to a worker slot so far, and those whose attempt
\* is in flight.
Handed == {c \in Cands : att[c].pc # "idle"}
InFlight == {c \in Cands : att[c].pc \notin {"idle", "settled"}}
SlotsOn(c) == {s \in 1..Len(slot) : slot[s].st = "busy" /\ slot[s].cur = c}

\* The cursor has handed out exactly the first candidates, each attempt in
\* flight belongs to one slot, and a gather runner that has returned has
\* attempted every candidate.
C34_CursorFacts ==
  /\ Handed = 1..Min(index, N)
  /\ \A c \in Cands : Cardinality(SlotsOn(c)) = IF c \in InFlight THEN 1 ELSE 0
  /\ (version = "gather" /\ runner = "returned") => Settled = Cands

\* C34: in both runners each candidate is handed to at most one worker
\* slot and never attempted a second time (the cursor only moves forward
\* and an attempt that has begun is never begun again); in gather mode
\* every candidate has been attempted when the runner returns.
C34_SharedCursor ==
  /\ []C34_CursorFacts
  /\ [][ /\ index' >= index
         /\ \A c \in Cands :
              att[c].pc # "idle" =>
                /\ att'[c].pc # "idle"
                /\ att'[c] = StartAtt => att[c] = StartAtt ]_vars

\* Gather mode, three candidates on two slots: the runner returned after
\* every candidate was attempted, the second one without success.
C34_Witness ==
  /\ version = "gather" /\ runner = "returned" /\ N = 3 /\ Len(slot) = 2
  /\ Settled = Cands /\ index = 3
  /\ att[2].ret = "null" /\ att[3].ret = "ok"

\* max(1, min(concurrency, N))
PoolBound == IF conc < 1 \/ N < 1 THEN 1 ELSE IF conc <= N THEN conc ELSE N

\* The candidate pages that are open: created and not known to be closed.
OpenPages == {c \in Cands : att[c].page \in {"open", "closing", "close_failed"}}

\* C35 as stated. In both runners and for every concurrency value, 0 and
\* negative ones included, at most max(1, min(concurrency, N)) candidate
\* attempts are in flight at any moment, and so at most that many candidate
\* pages are open.
C35_BoundedAttemptsAndPages ==
  /\ Cardinality(InFlight) <= PoolBound
  /\ Cardinality(OpenPages) <= PoolBound

\* C35 amended. At most max(1, min(concurrency, N)) candidate attempts are
\* in flight at any moment, for every concurrency value; every open
\* candidate page belongs to an attempt in flight, or is the page of a
\* settled attempt on which close was invoked once and failed or timed out.
C35_BoundedAttempts ==
  /\ Cardinality(InFlight) <= PoolBound
  /\ \A c \in OpenPages :
       \/ c \in InFlight
       \/ /\ att[c].pc = "settled"
          /\ att[c].page = "close_failed" /\ att[c].closes = 1

\* Concurrency 0 or less, one slot: the close of the first page failed and
\* the second candidate's page is open, two open pages for one attempt in
\* flight.
C35_Witness ==
  /\ conc <= 0 /\ N >= 2 /\ Len(slot) = 1
  /\ InFlight = {2} /\ att[2].page = "open"
  /\ att[1].pc = "settled" /\ att[1].page = "close_failed"

\* The attempts that have settled with a non-null value.
SettledOk == {c \in Cands : att[c].pc = "settled" /\ att[c].ret = "ok"}

\* Race mode: a result is recorded exactly when resolved is set, no attempt
\* settled with a value before that, and the handler gets the recorded
\* result from the runner.
C36_ResultFacts ==
  IsRace =>
    /\ resolved <=> result # NoHtml
    /\ ~resolved => SettledOk = {}
    /\ runner = "returned" => html = IF resolved THEN result ELSE SerpHtml

\* C36: in race mode the result is written at most once: once resolved is
\* true it stays true and the result never changes, and the step that sets
\* it is the settling of a worker call with a non-null value, the first one
\* to do so, whose value becomes the result the runner returns.
C36_FirstWriterWins ==
  /\ []C36_ResultFacts
  /\ [][ IsRace =>
           /\ resolved => (resolved' /\ result' = result)
           /\ (~resolved /\ resolved') =>
                \E c \in Cands :
                  /\ att[c].pc # "settled" /\ att'[c].pc = "settled"
                  /\ att'[c].ret = "ok"
                  /\ SettledOk' = {c}
                  /\ result' = Html(c) ]_vars

\* Race mode: the second candidate settled first with a page and the
\* first one, still in flight then, settled with a page after it; the runner
\* returned the second candidate's html.
C36_Witness ==
  /\ IsRace /\ runner = "returned" /\ N >= 2
  /\ SettledOk = {1, 2}
  /\ result = Html(2) /\ html = Html(2)

\* C37: the race runner returns null exactly when no attempt it made
\* yielded a value (each one yielded null or threw); it has then attempted
\* every one of the N candidates, each once, before returning; on an empty
\* list it returns null without starting a worker.
C37_NullOnlyWhenExhausted ==
  (IsRace /\ runner = "returned") =>
    /\ result = NoHtml <=> \A c \in Handed : att[c].ret \in {"null", "throw"}
    /\ result = NoHtml =>
         /\ Handed = Cands /\ Settled = Cands /\ Failed = Cands
         /\ index >= N
    /\ InFlight = {}
    /\ N = 0 => (slot = <<>> /\ index = 0 /\ result = NoHtml)

\* Race mode, three candidates on two slots: all three were attempted and
\* none gave a page, the runner returned null.
C37_Witness ==
  /\ IsRace /\ runner = "returned" /\ result = NoHtml
  /\ N = 3 /\ Len(slot) = 2 /\ Failed = Cands

\* The race runner returned null on an empty list: no slot, cursor at 0.
C37_WitnessEmpty ==
  /\ IsRace /\ runner = "returned" /\ N = 0
  /\ result = NoHtml /\ slot = <<>> /\ index = 0

\* C38: a candidate denied by the robots check consumes no crawl resource:
\* the worker call settles at once with null, no page was opened (and so
\* none closed), the rate-limiter gate was not entered (lastRequestTime is
\* not written), no navigation was issued and nothing was pushed onto the
\* accepted sources.
C38_DeniedConsumesNothing ==
  (one.pc # "off" /\ one.exit = "robots_denied") =>
    /\ one.pc = "settled" /\ one.ret = "null"
    /\ one.pages = 0 /\ one.closes = 0
    /\ one.gates = 0
    /\ one.navs = 0 /\ one.reads = 0
    /\ one.pushed = <<>>

\* The polite worker was denied by robots.txt and returned null.
C38_Witness ==
  /\ version = "polite" /\ one.pc = "settled"
  /\ one.exit = "robots_denied" /\ one.ret = "null"
  /\ one.pages = 0 /\ one.gates = 0 /\ one.navs = 0

\* C39: race mode, whenever the runner has returned a non-null html: the
\* recorded success url and the first entry of the accepted-source list
\* are those of the candidate whose html was returned, whatever the order
\* in which the workers finish their extraction and close their pages.
C39_WinnerConsistent ==
  (IsRace /\ runner = "returned" /\ result # NoHtml) =>
    /\ html = result
    /\ Len(successes) >= 1
    /\ successes[1] = EntryOf(successUrl)
    /\ Html(successUrl) = html

\* Candidate 1 finished its extraction first (it leads the accepted sources
\* and is the success url), candidate 2 closed its page first and its html
\* was returned.
C39_Witness ==
  /\ IsRace /\ runner = "returned"
  /\ result = Html(2) /\ html = Html(2)
  /\ successUrl = 1 /\ successes[1] = EntryOf(1)
====
